---- MODULE Spec2Model ----
(***************************************************************************)
(* A model of the crossword compiler: the word-intersection graph          *)
(* (graph.rs), the grid placement engine (grid/*.rs) and the evolutionary  *)
(* generator (generator/mod.rs).                                           *)
(*                                                                         *)
(* Rust's Option<T> is modelled as a set with at most one element:         *)
(* None is {} and Some(x) is {x}.  A panic (a failed assert!, an unwrap of *)
(* None, an index out of bounds) is an outcome of its own: operators that  *)
(* can panic return a record with a "panic" field.                         *)
(***************************************************************************)
EXTENDS Integers, Sequences, FiniteSets, TLC

VARIABLES
    graph,        \* graph.rs: the Graph under construction
    gres,         \* graph.rs: the value returned by the last Graph query
    grid,         \* grid: the CrosswordGrid the caller holds
    second_grid,  \* grid: the grid returned by the last random_partition
    prev_grid,    \* grid: the grid as it was before the last operation
    last_op,      \* grid: the last operation, its arguments and its result
    ops,          \* grid: the number of operations made on the grid
    generator,    \* generator: the CrosswordGenerator
    run,          \* generator: the caller's inputs and the locals of generate()
    pick,         \* generator: a call of pick_best_varied and its result
    call          \* a call of a function on values: arguments and result

graphVars == <<graph, gres>>
gridVars == <<grid, second_grid, prev_grid, last_op, ops>>
genVars == <<generator, run, pick, call>>
vars == <<graph, gres, grid, second_grid, prev_grid, last_op, ops,
          generator, run, pick, call>>

\* the generator variables while no generator exists
NoGenerator == [pc |-> "none"]

\* the value of call while no function is being called
NoCall == [op |-> "none"]

----------------------------------------------------------------------------
(* Bounds of the model *)

\* node ids of the graphs explored are 0 .. MaxNode
MaxNode == 3

\* at most MaxEdges distinct undirected edges are added to a graph
MaxEdges == 3

\* anchors of a placement lie at most AnchorMargin cells outside the
\* bounding box of the grid
AnchorMargin == 0

\* remove_random_leaves is asked to remove at most MaxLeaves leaves
MaxLeaves == 2

\* at most MaxPlaceOps placements are attempted on a grid, and at most
\* MaxRemoveOps operations that unplace words are made on it
MaxPlaceOps == 2
MaxRemoveOps == 1

NodeIds == 0 .. MaxNode

----------------------------------------------------------------------------
(* Helpers for Rust collections *)

Min(a, b) == IF a < b THEN a ELSE b
Max(a, b) == IF a > b THEN a ELSE b

\* Vec::sort / sorted_vec_from_set on a set of integers
RECURSIVE sorted_vec_from_set(_)
sorted_vec_from_set(set) ==
    IF set = {} THEN <<>>
    ELSE LET m == CHOOSE x \in set : \A y \in set : x <= y
         IN <<m>> \o sorted_vec_from_set(set \ {m})

SeqToSet(s) == {s[i] : i \in 1 .. Len(s)}

----------------------------------------------------------------------------
(* graph.rs *)

\* Graph { node_storage: Vec<Node>, node_map: HashMap<usize, usize> };
\* node_map gives the 1-based position of a node in node_storage here.
EmptyGraph == [node_storage |-> <<>>, node_map |-> <<>>]

HasNode(g, node_id) == node_id \in DOMAIN g.node_map

count_nodes(g) == Len(g.node_storage)

add_node(g, node_id) ==
    IF HasNode(g, node_id) THEN g
    ELSE [node_storage |-> Append(g.node_storage,
                                  [node_id |-> node_id, connected_nodes |-> {}]),
          node_map |-> [n \in DOMAIN g.node_map \cup {node_id} |->
                            IF n = node_id THEN count_nodes(g) + 1
                            ELSE g.node_map[n]]]

\* Node::add_edge through get_node_mut
NodeAddEdge(g, node_id, neighbour_id) ==
    LET i == g.node_map[node_id]
    IN [g EXCEPT !.node_storage[i].connected_nodes = @ \cup {neighbour_id}]

RECURSIVE add_edges(_, _)
add_edges(g, edges) ==
    IF edges = <<>> THEN g
    ELSE LET first  == Head(edges)[1]
             second == Head(edges)[2]
             g1 == add_node(add_node(g, first), second)
             g2 == NodeAddEdge(NodeAddEdge(g1, first, second), second, first)
         IN add_edges(g2, Tail(edges))

new_from_edges(edges) == add_edges(EmptyGraph, edges)

get_node(g, node_id) == g.node_storage[g.node_map[node_id]]

RECURSIVE SumDegrees(_, _)
SumDegrees(g, i) ==
    IF i > Len(g.node_storage) THEN 0
    ELSE Cardinality(g.node_storage[i].connected_nodes) + SumDegrees(g, i + 1)

count_edges(g) == SumDegrees(g, 1) \div 2

get_edge_list_missing_as_empty(g, node_id) ==
    IF ~HasNode(g, node_id) THEN {<<>>}
    ELSE LET nbrs == sorted_vec_from_set(get_node(g, node_id).connected_nodes)
         IN {[i \in 1 .. Len(nbrs) |-> <<node_id, nbrs[i]>>]}

\* Err(NodeNotFound) is the empty Option here; Ok(edges) holds the sorted list
get_edge_list(g, node_id) ==
    IF ~HasNode(g, node_id) THEN {}
    ELSE LET nbrs == sorted_vec_from_set(get_node(g, node_id).connected_nodes)
         IN {[i \in 1 .. Len(nbrs) |-> <<node_id, nbrs[i]>>]}

TagEdges(from_first, edges) == [i \in 1 .. Len(edges) |-> <<from_first, edges[i]>>]

\* the while-let loop of partition_nodes over the edge queue
RECURSIVE PartitionLoop(_, _, _, _, _)
PartitionLoop(g, first_node_set, second_node_set, used_edges, edge_stack) ==
    IF edge_stack = <<>>
    THEN [err |-> "Ok",
          first |-> sorted_vec_from_set(first_node_set),
          second |-> sorted_vec_from_set(second_node_set)]
    ELSE LET from_first == Head(edge_stack)[1]
             edge == Head(edge_stack)[2]
             node_to == edge[2]
             edge_already_used == edge \in used_edges
             used == used_edges \cup {edge, <<edge[2], edge[1]>>}
             is_first_visit == node_to \notin first_node_set
                               /\ node_to \notin second_node_set
         IN IF edge_already_used \/ ~is_first_visit
            THEN PartitionLoop(g, first_node_set, second_node_set, used,
                               Tail(edge_stack))
            ELSE IF get_edge_list(g, node_to) = {}
            THEN [err |-> "InvalidEdge", first |-> <<>>, second |-> <<>>]
            ELSE LET new_edges == CHOOSE e \in get_edge_list(g, node_to) : TRUE
                 IN PartitionLoop(g,
                        IF from_first THEN first_node_set \cup {node_to}
                                      ELSE first_node_set,
                        IF from_first THEN second_node_set
                                      ELSE second_node_set \cup {node_to},
                        used,
                        Tail(edge_stack) \o TagEdges(from_first, new_edges))

\* partition_nodes with the edges of second_node queued before those of
\* first_node
partition_nodes_second_edges_first(g, first_node, second_node) ==
    IF get_edge_list(g, first_node) = {} \/ get_edge_list(g, second_node) = {}
    THEN [err |-> "NodeNotFound", first |-> <<>>, second |-> <<>>]
    ELSE LET e1 == CHOOSE e \in get_edge_list(g, first_node) : TRUE
             e2 == CHOOSE e \in get_edge_list(g, second_node) : TRUE
         IN PartitionLoop(g, {first_node}, {second_node}, {},
                          TagEdges(FALSE, e2) \o TagEdges(TRUE, e1))

\* partition_nodes seeded with the edges of first_node only
partition_nodes_first_edges_only(g, first_node, second_node) ==
    IF get_edge_list(g, first_node) = {} \/ get_edge_list(g, second_node) = {}
    THEN [err |-> "NodeNotFound", first |-> <<>>, second |-> <<>>]
    ELSE LET e1 == CHOOSE e \in get_edge_list(g, first_node) : TRUE
         IN PartitionLoop(g, {first_node}, {second_node}, {}, TagEdges(TRUE, e1))

partition_nodes(g, first_node, second_node) ==
    IF get_edge_list(g, first_node) = {} \/ get_edge_list(g, second_node) = {}
    THEN [err |-> "NodeNotFound", first |-> <<>>, second |-> <<>>]
    ELSE LET e1 == CHOOSE e \in get_edge_list(g, first_node) : TRUE
             e2 == CHOOSE e \in get_edge_list(g, second_node) : TRUE
         IN PartitionLoop(g, {first_node}, {second_node}, {},
                          TagEdges(TRUE, e1) \o TagEdges(FALSE, e2))

\* nodes reached by traverse_count_node_visits_from_node: the keys of the
\* visit counter after the edge stack has been emptied
RECURSIVE TraverseLoop(_, _, _, _)
TraverseLoop(g, visited, used_edges, edge_stack) ==
    IF edge_stack = <<>> THEN visited
    ELSE LET edge == edge_stack[Len(edge_stack)]
             rest == SubSeq(edge_stack, 1, Len(edge_stack) - 1)
             edge_already_used == edge \in used_edges
             used == used_edges \cup {edge, <<edge[2], edge[1]>>}
             next_node == edge[2]
         IN IF edge_already_used \/ next_node \in visited
            THEN TraverseLoop(g, visited, used, rest)
            ELSE TraverseLoop(g, visited \cup {next_node}, used,
                     rest \o (CHOOSE e \in get_edge_list(g, next_node) : TRUE))

traverse_count_node_visits_from_node(g, node_id) ==
    TraverseLoop(g, {node_id}, {},
                 CHOOSE e \in get_edge_list(g, node_id) : TRUE)

traverse_count_node_visits(g) ==
    IF Len(g.node_storage) > 0
    THEN traverse_count_node_visits_from_node(g, g.node_storage[1].node_id)
    ELSE {}

is_connected_with_some_node(g) ==
    IF count_nodes(g) > 0
    THEN \E node_id \in DOMAIN g.node_map :
            node_id \in traverse_count_node_visits(g)
    ELSE TRUE

is_connected(g) ==
    IF count_nodes(g) > 0
    THEN \A node_id \in DOMAIN g.node_map :
            node_id \in traverse_count_node_visits(g)
    ELSE TRUE

find_leaves_up_to_two(g) ==
    sorted_vec_from_set({node_id \in DOMAIN g.node_map :
        Cardinality(get_node(g, node_id).connected_nodes) <= 2})

find_leaves(g) ==
    sorted_vec_from_set({node_id \in DOMAIN g.node_map :
        Cardinality(get_node(g, node_id).connected_nodes) <= 1})

\* count_cycles subtracts on usize.  When the nodes outnumber the edges by
\* more than one the subtraction overflows: a build with overflow checks
\* panics, a build without them wraps to 2^64 - below.
CountCyclesOutcomes(g) ==
    IF count_nodes(g) > count_edges(g) + 1
    THEN {[panic |-> TRUE, wrapped |-> FALSE, value |-> 0],
          [panic |-> FALSE, wrapped |-> TRUE,
           value |-> count_nodes(g) - (count_edges(g) + 1)]}
    ELSE {[panic |-> FALSE, wrapped |-> FALSE,
           value |-> count_edges(g) + 1 - count_nodes(g)]}

\* first_node_not_in_set: an Option, a set of at most one node
first_node_not_in_set_largest(g, forbidden_nodes) ==
    {n \in DOMAIN g.node_map \ forbidden_nodes :
        \A k \in DOMAIN g.node_map \ forbidden_nodes : n >= k}

first_node_not_in_set(g, forbidden_nodes) ==
    {n \in DOMAIN g.node_map \ forbidden_nodes :
        \A k \in DOMAIN g.node_map \ forbidden_nodes : n <= k}

\* shift_node_storage_after_removal: the node leaves node_storage and
\* node_map, and the nodes behind it move one place to the left
shift_node_storage_after_removal(g, node_id) ==
    IF ~HasNode(g, node_id) THEN g
    ELSE [node_storage |->
            [i \in 1 .. Len(g.node_storage) - 1 |->
                IF i < g.node_map[node_id] THEN g.node_storage[i]
                ELSE g.node_storage[i + 1]],
          node_map |->
            [n \in DOMAIN g.node_map \ {node_id} |->
                IF g.node_map[n] > g.node_map[node_id]
                THEN g.node_map[n] - 1 ELSE g.node_map[n]]]

\* the loop of delete_node over the drained neighbours, in the order the
\* hash set yields them
RECURSIVE DeleteEdges(_, _, _)
DeleteEdges(g, node_id, neighbours) ==
    IF neighbours = <<>> THEN [graph |-> g, err |-> "Ok"]
    ELSE IF ~HasNode(g, Head(neighbours))
    THEN [graph |-> g, err |-> "InvalidEdge"]
    ELSE DeleteEdges(
            [g EXCEPT !.node_storage[g.node_map[Head(neighbours)]]
                            .connected_nodes = @ \ {node_id}],
            node_id, Tail(neighbours))

DeleteShift(r, node_id) ==
    IF r.err # "Ok" THEN r
    ELSE [graph |-> shift_node_storage_after_removal(r.graph, node_id),
          err |-> "Ok"]

\* neighbours: the neighbours of the node as drain() yields them
delete_node(g, node_id, neighbours) ==
    IF ~HasNode(g, node_id) THEN [graph |-> g, err |-> "Ok"]
    ELSE DeleteShift(
            DeleteEdges(
                [g EXCEPT !.node_storage[g.node_map[node_id]]
                                .connected_nodes = {}],
                node_id, neighbours),
            node_id)

\* the while-let loop of get_connected_components
RECURSIVE ComponentsLoop(_, _, _)
ComponentsVisit(g, components, nodes_visited, component) ==
    ComponentsLoop(g, Append(components, sorted_vec_from_set(component)),
                   nodes_visited \cup component)

ComponentsLoop(g, components, nodes_visited) ==
    IF first_node_not_in_set(g, nodes_visited) = {} THEN components
    ELSE ComponentsVisit(g, components, nodes_visited,
            traverse_count_node_visits_from_node(g,
                CHOOSE n \in first_node_not_in_set(g, nodes_visited) : TRUE))

get_connected_components(g) == ComponentsLoop(g, <<>>, {})

ComponentsAfter(r) ==
    IF r.err # "Ok" THEN [graph |-> r.graph, err |-> r.err, components |-> <<>>]
    ELSE [graph |-> r.graph, err |-> "Ok",
          components |-> get_connected_components(r.graph)]

components_after_deleting_node(g, node_id, neighbours) ==
    ComponentsAfter(delete_node(g, node_id, neighbours))

----------------------------------------------------------------------------
(* grid/mod.rs: Direction and Location *)

Across == "Across"
Down == "Down"
Directions == {Across, Down}

rotate(direction) == IF direction = Across THEN Down ELSE Across

\* Location(row, col) is the tuple <<row, col>>
relative_location(location, move_across, move_down) ==
    <<location[1] + move_across, location[2] + move_down>>

relative_location_directed(location, move_size, direction) ==
    IF direction = Across THEN <<location[1], location[2] + move_size>>
    ELSE <<location[1] + move_size, location[2]>>

----------------------------------------------------------------------------
(* grid/cell.rs *)

\* Cell { fill_status }: Filled(FilledCell { letter, across_word_id,
\* down_word_id }), Empty or Black.  An Empty or Black cell carries no letter
\* and no word id.
CellNew(letter, across_word_id, down_word_id) ==
    [fill |-> "Filled", letter |-> letter,
     across_word_id |-> across_word_id, down_word_id |-> down_word_id]

CellEmpty == [fill |-> "Empty", letter |-> " ", across_word_id |-> {},
              down_word_id |-> {}]

CellBlack == [fill |-> "Black", letter |-> " ", across_word_id |-> {},
              down_word_id |-> {}]

get_across_word_id(cell) ==
    IF cell.fill = "Filled" THEN cell.across_word_id ELSE {}

get_down_word_id(cell) ==
    IF cell.fill = "Filled" THEN cell.down_word_id ELSE {}

cell_get_word_id(cell, direction) ==
    IF direction = Across THEN get_across_word_id(cell)
    ELSE get_down_word_id(cell)

is_intersection(cell) ==
    get_across_word_id(cell) # {} /\ get_down_word_id(cell) # {}

contains_letter(cell) == cell.fill = "Filled"

to_char(cell) == IF cell.fill = "Filled" THEN cell.letter ELSE " "

is_empty(cell) == cell.fill = "Empty"

is_black(cell) == cell.fill = "Black"

set_empty(cell) == CellEmpty

set_black(cell) == CellBlack

\* an update that writes the new id over both owners
cell_update_word_id_both(cell, old_word_id, new_word_id) ==
    IF cell.fill = "Filled" /\ old_word_id \in
            get_across_word_id(cell) \cup get_down_word_id(cell)
    THEN CellNew(cell.letter, get_across_word_id(cell) \cup {new_word_id},
                 get_down_word_id(cell) \cup {new_word_id})
    ELSE cell

\* Cell::update_word_id
cell_update_word_id(cell, old_word_id, new_word_id) ==
    IF cell.fill = "Filled"
    THEN CellNew(cell.letter,
                 IF get_across_word_id(cell) = {old_word_id}
                 THEN {new_word_id} ELSE cell.across_word_id,
                 IF get_down_word_id(cell) = {old_word_id}
                 THEN {new_word_id} ELSE cell.down_word_id)
    ELSE cell

\* Cell::remove_word clearing the across owner only
cell_remove_word_across_only(cell, word_id) ==
    IF cell.fill = "Filled"
    THEN LET across_word_id == get_across_word_id(cell) \ {word_id}
             down_word_id == get_down_word_id(cell)
         IN IF across_word_id = {} /\ down_word_id = {}
            THEN CellEmpty
            ELSE CellNew(cell.letter, across_word_id, down_word_id)
    ELSE cell

cell_remove_word(cell, word_id) ==
    IF cell.fill = "Filled"
    THEN LET across_word_id == get_across_word_id(cell) \ {word_id}
             down_word_id == get_down_word_id(cell) \ {word_id}
         IN IF across_word_id = {} /\ down_word_id = {}
            THEN CellEmpty
            ELSE CellNew(cell.letter, across_word_id, down_word_id)
    ELSE cell

\* Cell::add_word without the comparison of the letters
cell_add_word_any_letter(cell, word_id, letter, direction) ==
    LET existing_across == get_across_word_id(cell)
        existing_down == get_down_word_id(cell)
        across_word_id == IF direction = Across THEN {word_id}
                          ELSE existing_across
        down_word_id == IF direction = Down THEN {word_id} ELSE existing_down
        success ==
            CASE cell.fill = "Filled" ->
                    IF direction = Across
                    THEN ~(existing_across # {} /\ existing_across # {word_id})
                    ELSE ~(existing_down # {} /\ existing_down # {word_id})
              [] cell.fill = "Empty" -> TRUE
              [] cell.fill = "Black" -> FALSE
    IN [cell |-> IF success THEN CellNew(letter, across_word_id, down_word_id)
                 ELSE cell,
        success |-> success]

\* Cell::add_word: the cell afterwards and whether the letter went in
cell_add_word(cell, word_id, letter, direction) ==
    LET existing_across == get_across_word_id(cell)
        existing_down == get_down_word_id(cell)
        across_word_id == IF direction = Across THEN {word_id}
                          ELSE existing_across
        down_word_id == IF direction = Down THEN {word_id} ELSE existing_down
        success ==
            CASE cell.fill = "Filled" ->
                    /\ IF direction = Across
                       THEN ~(existing_across # {}
                              /\ existing_across # {word_id})
                       ELSE ~(existing_down # {} /\ existing_down # {word_id})
                    /\ cell.letter = letter
              [] cell.fill = "Empty" -> TRUE
              [] cell.fill = "Black" -> FALSE
    IN [cell |-> IF success THEN CellNew(letter, across_word_id, down_word_id)
                 ELSE cell,
        success |-> success]

----------------------------------------------------------------------------
(* grid/word.rs *)

\* Word { word_text, placement: Option<WordPlacement>, required_direction }
\* word_text is a sequence of letters; the clue plays no part in placement.
WordPlacementNew(word_text, start_location, direction) ==
    [start_location |-> start_location,
     end_location |-> relative_location_directed(start_location,
                                                 Len(word_text) - 1, direction),
     direction |-> direction]

new_unplaced(word_text, required_direction) ==
    [word_text |-> word_text, placement |-> {},
     required_direction |-> required_direction]

\* the ASCII characters between 'A' and 'z': the capital letters, the
\* characters between 'Z' and 'a' (the backslash and the backquote are
\* left out), and the small letters
CapitalLetters ==
    <<"A", "B", "C", "D", "E", "F", "G", "H", "I", "J", "K", "L", "M",
      "N", "O", "P", "Q", "R", "S", "T", "U", "V", "W", "X", "Y", "Z">>

SmallLetters ==
    <<"a", "b", "c", "d", "e", "f", "g", "h", "i", "j", "k", "l", "m",
      "n", "o", "p", "q", "r", "s", "t", "u", "v", "w", "x", "y", "z">>

BetweenLetters == {"[", "]", "^", "_"}

InRangeAToSmallZ(c) ==
    \/ \E i \in 1 .. Len(CapitalLetters) : CapitalLetters[i] = c
    \/ \E i \in 1 .. Len(SmallLetters) : SmallLetters[i] = c
    \/ c \in BetweenLetters

to_ascii_uppercase(c) ==
    IF \E i \in 1 .. Len(SmallLetters) : SmallLetters[i] = c
    THEN CapitalLetters[CHOOSE i \in 1 .. Len(SmallLetters) : SmallLetters[i] = c]
    ELSE c

to_uppercase(string) ==
    [i \in 1 .. Len(string) |-> to_ascii_uppercase(string[i])]

\* the loop of parse_answer_string over the characters; the word lengths it
\* collects go into the clue, which is not part of the model
RECURSIVE ParseAnswerLoop(_, _)
ParseAnswerLoop(string, word) ==
    IF string = <<>> THEN [err |-> "Ok", word |-> word]
    ELSE IF Head(string) \in {"-", " "}
    THEN ParseAnswerLoop(Tail(string), word)
    ELSE IF InRangeAToSmallZ(Head(string))
    THEN ParseAnswerLoop(Tail(string),
                         Append(word, to_ascii_uppercase(Head(string))))
    ELSE [err |-> "InvalidAnswerChar", word |-> <<>>]

ParseAnswerChecked(r) ==
    IF r.err = "Ok" /\ r.word = <<>>
    THEN [err |-> "EmptyAnswer", word |-> <<>>]
    ELSE r

parse_answer_string(string) == ParseAnswerChecked(ParseAnswerLoop(string, <<>>))

\* string.split("::"): the pieces between the occurrences of "::", found
\* from left to right
RECURSIVE SplitDoubleColon(_, _)
SplitDoubleColon(string, piece) ==
    IF string = <<>> THEN <<piece>>
    ELSE IF Len(string) >= 2 /\ string[1] = ":" /\ string[2] = ":"
    THEN <<piece>> \o SplitDoubleColon(SubSeq(string, 3, Len(string)), <<>>)
    ELSE SplitDoubleColon(Tail(string), Append(piece, Head(string)))

RequiredDirection(components) ==
    IF Len(components) < 3 THEN {}
    ELSE IF to_uppercase(components[3]) = <<"A", "C", "R", "O", "S", "S">>
    THEN {Across}
    ELSE IF to_uppercase(components[3]) = <<"D", "O", "W", "N">>
    THEN {Down}
    ELSE {}

ParseClueComponents(components) ==
    [err |-> parse_answer_string(components[1]).err,
     word_text |-> parse_answer_string(components[1]).word,
     required_direction |-> RequiredDirection(components)]

\* parse_clue_string: the answer, and the direction the line asks for
parse_clue_string(string) ==
    ParseClueComponents(SplitDoubleColon(string, <<>>))

\* Word::new_parsed: an Option, empty when the line does not parse
new_parsed(string) ==
    IF parse_clue_string(string).err # "Ok" THEN {}
    ELSE {new_unplaced(parse_clue_string(string).word_text,
                       parse_clue_string(string).required_direction)}

get_location(word) == word.placement

is_placed(word) == get_location(word) # {}

remove_placement(word) == [word EXCEPT !.placement = {}]

allowed_in_direction(word, direction) ==
    word.required_direction = {} \/ word.required_direction = {direction}

\* update_location asserts allowed_in_direction: callers test it first
update_location(word, start_location, direction) ==
    [word EXCEPT !.placement =
        {WordPlacementNew(word.word_text, start_location, direction)}]

----------------------------------------------------------------------------
(* grid/mod.rs: CrosswordGrid *)

\* CrosswordGrid { cell_map, word_map, top_left_cell_index,
\* bottom_right_cell_index }.  cell_map is a function from Locations to
\* cells, word_map a function from word ids to Words.  The field panic is
\* TRUE once an operation on the grid has panicked: the thread is unwinding
\* and every later step of the operation is skipped.
Panic(g) == [g EXCEPT !.panic = TRUE]

Top(g) == g.top_left_cell_index[1]
Left(g) == g.top_left_cell_index[2]
Bottom(g) == g.bottom_right_cell_index[1]
Right(g) == g.bottom_right_cell_index[2]

HasCell(g, location) == location \in DOMAIN g.cell_map

HasWord(g, word_id) == word_id \in DOMAIN g.word_map

PlacedWordIds(g) == {id \in DOMAIN g.word_map : is_placed(g.word_map[id])}

count_placed_words(g) == Cardinality(PlacedWordIds(g))

\* Vec::sort on a set of (across, down) pairs
RECURSIVE SortedPairs(_)
SortedPairs(set) ==
    IF set = {} THEN <<>>
    ELSE LET m == CHOOSE x \in set : \A y \in set :
                      x[1] < y[1] \/ (x[1] = y[1] /\ x[2] <= y[2])
         IN <<m>> \o SortedPairs(set \ {m})

get_all_intersections(g) ==
    SortedPairs({<<CHOOSE a \in get_across_word_id(g.cell_map[l]) : TRUE,
                   CHOOSE d \in get_down_word_id(g.cell_map[l]) : TRUE>> :
                 l \in {x \in DOMAIN g.cell_map : is_intersection(g.cell_map[x])}})

RECURSIVE AddNodes(_, _)
AddNodes(gr, ids) ==
    IF ids = <<>> THEN gr ELSE AddNodes(add_node(gr, Head(ids)), Tail(ids))

\* the placed words are added in the iteration order of word_map; neither
\* is_connected nor partition_nodes depends on the order of node_storage
\* (SpecGraph builds graphs in every order), so the id order is taken here
to_graph(g) ==
    AddNodes(new_from_edges(get_all_intersections(g)),
             sorted_vec_from_set(PlacedWordIds(g)))

\* the rendering: rows top+1 .. bottom-1, columns left+1 .. right-1, a
\* newline after each row.  A String is a sequence of characters here.
RowToString(g, row) ==
    [i \in 1 .. Max(0, Right(g) - Left(g) - 1) |->
        LET location == <<row, Left(g) + i>>
        IN IF HasCell(g, location) THEN to_char(g.cell_map[location]) ELSE "!"]
    \o <<"\n">>

RECURSIVE RowsToString(_, _)
RowsToString(g, row) ==
    IF row < Bottom(g) THEN RowToString(g, row) \o RowsToString(g, row + 1)
    ELSE <<>>

to_string(g) == RowsToString(g, Top(g) + 1)

\* check_valid: TRUE when no assertion of check_valid fails
check_valid(g) ==
    /\ Top(g) <= Bottom(g)
    /\ Left(g) <= Right(g)
    /\ \A row \in Top(g) .. Bottom(g), col \in Left(g) .. Right(g) :
            HasCell(g, <<row, col>>)
    /\ \A location \in DOMAIN g.cell_map :
            /\ get_across_word_id(g.cell_map[location]) \subseteq DOMAIN g.word_map
            /\ get_down_word_id(g.cell_map[location]) \subseteq DOMAIN g.word_map
    /\ is_connected(to_graph(g))

----------------------------------------------------------------------------
(* grid/spacing.rs *)

add_empty_row(g, new_row) ==
    LET new_cells == {<<new_row, col>> : col \in Left(g) .. Right(g)}
        cells == [l \in DOMAIN g.cell_map \cup new_cells |->
                    IF l \in new_cells THEN CellEmpty ELSE g.cell_map[l]]
    IN IF new_row > Bottom(g)
       THEN [g EXCEPT !.cell_map = cells,
                      !.bottom_right_cell_index = <<new_row, Right(g)>>]
       ELSE IF new_row < Top(g)
       THEN [g EXCEPT !.cell_map = cells,
                      !.top_left_cell_index = <<new_row, Left(g)>>]
       ELSE [g EXCEPT !.cell_map = cells]

add_empty_col(g, new_col) ==
    LET new_cells == {<<row, new_col>> : row \in Top(g) .. Bottom(g)}
        cells == [l \in DOMAIN g.cell_map \cup new_cells |->
                    IF l \in new_cells THEN CellEmpty ELSE g.cell_map[l]]
    IN IF new_col > Right(g)
       THEN [g EXCEPT !.cell_map = cells,
                      !.bottom_right_cell_index = <<Bottom(g), new_col>>]
       ELSE IF new_col < Left(g)
       THEN [g EXCEPT !.cell_map = cells,
                      !.top_left_cell_index = <<Top(g), new_col>>]
       ELSE [g EXCEPT !.cell_map = cells]

RECURSIVE expand_to_fit_cell(_, _)
expand_to_fit_cell(g, location) ==
    IF location[1] < Top(g)
    THEN expand_to_fit_cell(add_empty_row(g, Top(g) - 1), location)
    ELSE IF location[1] > Bottom(g)
    THEN expand_to_fit_cell(add_empty_row(g, Bottom(g) + 1), location)
    ELSE IF location[2] < Left(g)
    THEN expand_to_fit_cell(add_empty_col(g, Left(g) - 1), location)
    ELSE IF location[2] > Right(g)
    THEN expand_to_fit_cell(add_empty_col(g, Right(g) + 1), location)
    ELSE g

\* count_filled_cells_row unwraps every cell of the row: RowPresent is
\* FALSE when an unwrap panics
RowPresent(g, row) == \A col \in Left(g) .. Right(g) : HasCell(g, <<row, col>>)

ColPresent(g, col) == \A row \in Top(g) .. Bottom(g) : HasCell(g, <<row, col>>)

count_filled_cells_row(g, row) ==
    Cardinality({col \in Left(g) .. Right(g) :
                    contains_letter(g.cell_map[<<row, col>>])})

count_filled_cells_col(g, col) ==
    Cardinality({row \in Top(g) .. Bottom(g) :
                    contains_letter(g.cell_map[<<row, col>>])})

\* the four ifs of ensure_buffer_exists
BufferTop(g) ==
    IF g.panic THEN g
    ELSE IF ~RowPresent(g, Top(g)) THEN Panic(g)
    ELSE IF count_filled_cells_row(g, Top(g)) > 0
    THEN add_empty_row(g, Top(g) - 1)
    ELSE g

BufferBottom(g) ==
    IF g.panic THEN g
    ELSE IF ~RowPresent(g, Bottom(g)) THEN Panic(g)
    ELSE IF count_filled_cells_row(g, Bottom(g)) > 0
    THEN add_empty_row(g, Bottom(g) + 1)
    ELSE g

BufferLeft(g) ==
    IF g.panic THEN g
    ELSE IF ~ColPresent(g, Left(g)) THEN Panic(g)
    ELSE IF count_filled_cells_col(g, Left(g)) > 0
    THEN add_empty_col(g, Left(g) - 1)
    ELSE g

BufferRight(g) ==
    IF g.panic THEN g
    ELSE IF ~ColPresent(g, Right(g)) THEN Panic(g)
    ELSE IF count_filled_cells_col(g, Right(g)) > 0
    THEN add_empty_col(g, Right(g) + 1)
    ELSE g

\* ensure_buffer_exists adding rows only
ensure_buffer_exists_rows_only(g) == BufferBottom(BufferTop(g))

ensure_buffer_exists(g) == BufferRight(BufferLeft(BufferBottom(BufferTop(g))))

remove_row(g, row) ==
    LET cells == [l \in DOMAIN g.cell_map \
                        {<<row, col>> : col \in Left(g) .. Right(g)} |->
                    g.cell_map[l]]
    IN IF row = Bottom(g)
       THEN [g EXCEPT !.cell_map = cells,
                !.bottom_right_cell_index =
                    relative_location(g.bottom_right_cell_index, -1, 0)]
       ELSE IF row = Top(g)
       THEN [g EXCEPT !.cell_map = cells,
                !.top_left_cell_index =
                    relative_location(g.top_left_cell_index, 1, 0)]
       ELSE [g EXCEPT !.cell_map = cells]

remove_col(g, col) ==
    LET cells == [l \in DOMAIN g.cell_map \
                        {<<row, col>> : row \in Top(g) .. Bottom(g)} |->
                    g.cell_map[l]]
    IN IF col = Right(g)
       THEN [g EXCEPT !.cell_map = cells,
                !.bottom_right_cell_index =
                    relative_location(g.bottom_right_cell_index, 0, -1)]
       ELSE IF col = Left(g)
       THEN [g EXCEPT !.cell_map = cells,
                !.top_left_cell_index =
                    relative_location(g.top_left_cell_index, 0, 1)]
       ELSE [g EXCEPT !.cell_map = cells]

\* the four while loops of remove_excess_empty
RECURSIVE RemoveTopRows(_)
RemoveTopRows(g) ==
    IF g.panic THEN g
    ELSE IF ~RowPresent(g, Top(g) + 1) THEN Panic(g)
    ELSE IF count_filled_cells_row(g, Top(g) + 1) = 0
    THEN RemoveTopRows(remove_row(g, Top(g)))
    ELSE g

RECURSIVE RemoveBottomRows(_)
RemoveBottomRows(g) ==
    IF g.panic THEN g
    ELSE IF ~RowPresent(g, Bottom(g) - 1) THEN Panic(g)
    ELSE IF count_filled_cells_row(g, Bottom(g) - 1) = 0
    THEN RemoveBottomRows(remove_row(g, Bottom(g)))
    ELSE g

RECURSIVE RemoveLeftCols(_)
RemoveLeftCols(g) ==
    IF g.panic THEN g
    ELSE IF ~ColPresent(g, Left(g) + 1) THEN Panic(g)
    ELSE IF count_filled_cells_col(g, Left(g) + 1) = 0
    THEN RemoveLeftCols(remove_col(g, Left(g)))
    ELSE g

RECURSIVE RemoveRightCols(_)
RemoveRightCols(g) ==
    IF g.panic THEN g
    ELSE IF ~ColPresent(g, Right(g) - 1) THEN Panic(g)
    ELSE IF count_filled_cells_col(g, Right(g) - 1) = 0
    THEN RemoveRightCols(remove_col(g, Right(g)))
    ELSE g

remove_excess_empty(g) ==
    RemoveRightCols(RemoveLeftCols(RemoveBottomRows(RemoveTopRows(g))))

fit_to_size(g) ==
    IF g.panic THEN g
    ELSE IF ~check_valid(g) THEN Panic(g)
    ELSE remove_excess_empty(ensure_buffer_exists(g))

----------------------------------------------------------------------------
(* grid/mod.rs: construction and unplace_word *)

new_from_wordmap_single_placed(word_id, direction, word_map) ==
    LET word == word_map[word_id]
        across_id == IF direction = Across THEN {word_id} ELSE {}
        down_id == IF direction = Down THEN {word_id} ELSE {}
        locations == {relative_location_directed(<<0, 0>>, i - 1, direction) :
                        i \in 1 .. Len(word.word_text)}
        index_of(l) == IF direction = Across THEN l[2] + 1 ELSE l[1] + 1
        g == [cell_map |-> [l \in locations |->
                              CellNew(word.word_text[index_of(l)],
                                      across_id, down_id)],
              word_map |-> [word_map EXCEPT ![word_id] =
                              update_location(word, <<0, 0>>, direction)],
              top_left_cell_index |-> <<0, 0>>,
              bottom_right_cell_index |->
                  relative_location_directed(<<0, 0>>,
                      Len(word.word_text) - 1, direction),
              panic |-> ~allowed_in_direction(word, direction)]
    IN fit_to_size(g)

unplace_word(g, word_id) ==
    IF g.panic THEN g
    ELSE LET cells == [l \in DOMAIN g.cell_map |->
                          cell_remove_word(g.cell_map[l], word_id)]
             words == IF HasWord(g, word_id)
                      THEN [g.word_map EXCEPT ![word_id] = remove_placement(@)]
                      ELSE g.word_map
         IN fit_to_size([g EXCEPT !.cell_map = cells, !.word_map = words])

----------------------------------------------------------------------------
(* grid/add_word.rs *)

get_expected_black_cells(g) ==
    UNION {{relative_location_directed(p.start_location, -1, p.direction),
            relative_location_directed(p.end_location, 1, p.direction)} :
           p \in UNION {get_location(g.word_map[id]) : id \in DOMAIN g.word_map}}

\* a fill that does not clear the black cells first
fill_black_cells_without_clearing(g) ==
    IF g.panic THEN g
    ELSE LET black_cells == get_expected_black_cells(g)
         IN IF \E l \in black_cells : ~HasCell(g, l)
            THEN Panic(g)
            ELSE [g EXCEPT !.cell_map =
                    [l \in DOMAIN g.cell_map |->
                        IF l \in black_cells THEN CellBlack
                        ELSE g.cell_map[l]]]

fill_black_cells(g) ==
    IF g.panic THEN g
    ELSE LET black_cells == get_expected_black_cells(g)
         IN IF \E l \in black_cells : ~HasCell(g, l)
            THEN Panic(g)
            ELSE [g EXCEPT !.cell_map =
                    [l \in DOMAIN g.cell_map |->
                        IF l \in black_cells THEN CellBlack
                        ELSE IF is_black(g.cell_map[l]) THEN CellEmpty
                        ELSE g.cell_map[l]]]

StartLocation(location, index_in_word, word_direction) ==
    relative_location_directed(location, - index_in_word, word_direction)

BeforeStart(location, index_in_word, word_direction) ==
    relative_location_directed(
        StartLocation(location, index_in_word, word_direction),
        -1, word_direction)

AfterEnd(location, word, index_in_word, word_direction) ==
    relative_location_directed(location,
        Len(word.word_text) - (index_in_word + 1) + 1, word_direction)

\* the second half of check_cells_at_ends_free_for_word: g2 is the grid
\* expanded to fit after_end
CheckAfterEnd(g2, after_end, start_location) ==
    IF ~HasCell(g2, after_end)
    THEN [grid |-> g2, err |-> "CellNotFound", start |-> start_location]
    ELSE IF contains_letter(g2.cell_map[after_end])
    THEN [grid |-> g2, err |-> "NonEmptyWordBoundary",
          start |-> start_location]
    ELSE [grid |-> g2, err |-> "Ok", start |-> start_location]

\* the first half: g1 is the grid expanded to fit before_start.  An Err
\* returns at once and leaves the grid as expanded so far.
CheckBeforeStart(g1, before_start, after_end, start_location) ==
    IF ~HasCell(g1, before_start)
    THEN [grid |-> g1, err |-> "CellNotFound", start |-> start_location]
    ELSE IF contains_letter(g1.cell_map[before_start])
    THEN [grid |-> g1, err |-> "NonEmptyWordBoundary",
          start |-> start_location]
    ELSE CheckAfterEnd(expand_to_fit_cell(g1, after_end), after_end,
                       start_location)

\* Result<Location, CrosswordError> together with the grid as it is left
check_cells_at_ends_free_for_word(g, location, word, index_in_word, word_direction) ==
    CheckBeforeStart(
        expand_to_fit_cell(g, BeforeStart(location, index_in_word,
                                          word_direction)),
        BeforeStart(location, index_in_word, word_direction),
        AfterEnd(location, word, index_in_word, word_direction),
        StartLocation(location, index_in_word, word_direction))

\* Cell::add_word on the cell at working_location
PlaceLetterInCell(g, r, working_location) ==
    [grid |-> [g EXCEPT !.cell_map[working_location] = r.cell],
     err |-> IF r.success THEN "Ok" ELSE "CellError"]

place_letter(g, letter, word_id, working_location, word_direction) ==
    IF ~HasCell(g, working_location)
    THEN [grid |-> g, err |-> "CellNotFound"]
    ELSE PlaceLetterInCell(g,
            cell_add_word(g.cell_map[working_location], word_id, letter,
                          word_direction),
            working_location)

AddUpdatedLocation(rest, working_location) ==
    [rest EXCEPT !.updated_locations = @ \cup {working_location}]

\* the loop of place_word_in_cell over the letters from index i on; r is
\* the result of place_letter for letter i.  The location is pushed to
\* updated_locations whether or not the letter went in.
RECURSIVE PlaceLetters(_, _, _, _, _, _)
PlaceNextLetters(r, word, word_id, i, working_location, word_direction) ==
    IF r.err # "Ok"
    THEN [grid |-> r.grid, err |-> r.err,
          updated_locations |-> {working_location}]
    ELSE AddUpdatedLocation(
            PlaceLetters(r.grid, word, word_id, i + 1,
                relative_location_directed(working_location, 1,
                                           word_direction),
                word_direction),
            working_location)

PlaceLetters(g, word, word_id, i, working_location, word_direction) ==
    IF i > Len(word.word_text)
    THEN [grid |-> g, err |-> "Ok", updated_locations |-> {}]
    ELSE PlaceNextLetters(
            place_letter(g, word.word_text[i], word_id, working_location,
                         word_direction),
            word, word_id, i, working_location, word_direction)

\* the undo of place_word_in_cell: remove_word on every updated location
UndoLetters(p, word_id) ==
    [p.grid EXCEPT !.cell_map =
        [l \in DOMAIN p.grid.cell_map |->
            IF l \in p.updated_locations
            THEN cell_remove_word(p.grid.cell_map[l], word_id)
            ELSE p.grid.cell_map[l]]]

UndoResult(fitted, err) ==
    [grid |-> fitted, err |-> IF fitted.panic THEN "Panic" ELSE err]

\* the end of place_word_in_cell: p is the outcome of the loop over the
\* letters
PlaceFinish(p, start_location, word, word_id, word_direction) ==
    IF p.err = "Ok"
    THEN IF ~allowed_in_direction(word, word_direction)
         THEN [grid |-> Panic(p.grid), err |-> "Panic"]
         ELSE [grid |-> [p.grid EXCEPT !.word_map[word_id] =
                  update_location(word, start_location, word_direction)],
               err |-> "Ok"]
    ELSE IF \E l \in p.updated_locations : ~HasCell(p.grid, l)
    THEN [grid |-> Panic(p.grid), err |-> "Panic"]
    ELSE UndoResult(fit_to_size(UndoLetters(p, word_id)), p.err)

\* c is the outcome of check_cells_at_ends_free_for_word
PlaceChecked(c, word, word_id, word_direction) ==
    IF c.err # "Ok" THEN [grid |-> c.grid, err |-> c.err]
    ELSE PlaceFinish(
            PlaceLetters(c.grid, word, word_id, 1, c.start, word_direction),
            c.start, word, word_id, word_direction)

\* Result<(), CrosswordError> together with the grid as it is left; err is
\* "Panic" when the call does not return
place_word_in_cell(g, location, word_id, index_in_word, word_direction) ==
    IF g.panic THEN [grid |-> g, err |-> "Panic"]
    ELSE IF ~HasWord(g, word_id) THEN [grid |-> g, err |-> "WordNotFound"]
    ELSE PlaceChecked(
            check_cells_at_ends_free_for_word(g, location,
                g.word_map[word_id], index_in_word, word_direction),
            g.word_map[word_id], word_id, word_direction)

\* g0 is the grid after fill_black_cells
TryPlaceFilled(g0, location, word_id, index_in_word, word_direction) ==
    IF g0.panic THEN [grid |-> g0, err |-> "Panic"]
    ELSE IF ~HasWord(g0, word_id)
    THEN [grid |-> g0, err |-> "WordNotFound"]
    ELSE IF is_placed(g0.word_map[word_id])
    THEN [grid |-> g0, err |-> "WordAlreadyPlaced"]
    ELSE IF ~allowed_in_direction(g0.word_map[word_id], word_direction)
    THEN [grid |-> g0, err |-> "InvalidWordDirection"]
    ELSE place_word_in_cell(g0, location, word_id, index_in_word,
                            word_direction)

try_place_word_in_cell(g, location, word_id, index_in_word, word_direction) ==
    TryPlaceFilled(fill_black_cells(g), location, word_id, index_in_word,
                   word_direction)

----------------------------------------------------------------------------
(* grid/random.rs *)

RECURSIVE UnplaceWords(_, _)
UnplaceWords(g, word_ids) ==
    IF word_ids = <<>> THEN g
    ELSE UnplaceWords(unplace_word(g, Head(word_ids)), Tail(word_ids))

\* the while loop of remove_random_leaves; leaves.pop() takes the last
RECURSIVE RemoveLeavesLoop(_, _, _, _)
RemoveLeavesLoop(g, leaves, count, num_leaves) ==
    IF g.panic THEN g
    ELSE IF count < num_leaves /\ count_placed_words(g) > 1
    THEN IF leaves # <<>>
         THEN RemoveLeavesLoop(unplace_word(g, leaves[Len(leaves)]),
                               SubSeq(leaves, 1, Len(leaves) - 1),
                               count + 1, num_leaves)
         ELSE RemoveLeavesLoop(g, leaves, count + 1, num_leaves)
    ELSE g

\* all orders a seeded shuffle can leave a Vec in
Shuffles(vec) ==
    {p \in [1 .. Len(vec) -> SeqToSet(vec)] :
        \A i, j \in 1 .. Len(vec) : i # j => p[i] # p[j]}

\* shuffled_leaves is leaves after leaves.shuffle(&mut rng)
remove_random_leaves(g, num_leaves, shuffled_leaves) ==
    RemoveLeavesLoop(g, shuffled_leaves, 0, num_leaves)

\* the steps of random_partition, each given the grids made so far; a panic
\* at any step ends the call
PartitionResult(self2, second2) ==
    [self |-> IF second2.panic THEN Panic(self2) ELSE self2,
     second |-> second2]

PartitionFinish(self2, second1) ==
    IF self2.panic THEN [self |-> self2, second |-> Panic(second1)]
    ELSE PartitionResult(self2, fill_black_cells(fit_to_size(second1)))

PartitionSelf(second1, self1) ==
    IF self1.panic THEN [self |-> self1, second |-> Panic(second1)]
    ELSE PartitionFinish(fill_black_cells(fit_to_size(self1)), second1)

PartitionSecond(g1, parts, second1) ==
    IF second1.panic THEN [self |-> Panic(g1), second |-> second1]
    ELSE PartitionSelf(second1, UnplaceWords(g1, parts.second))

PartitionSplit(g1, parts) ==
    IF parts.err # "Ok" THEN [self |-> Panic(g1), second |-> Panic(g1)]
    ELSE PartitionSecond(g1, parts, UnplaceWords(g1, parts.first))

PartitionFitted(g1, word_ids) ==
    IF g1.panic \/ Len(word_ids) <= 1
    THEN [self |-> Panic(g1), second |-> Panic(g1)]
    ELSE PartitionSplit(g1,
            partition_nodes(to_graph(g1), word_ids[1], word_ids[2]))

\* word_ids is the Vec of placed word ids after word_ids.shuffle(&mut rng);
\* the result holds self and the returned grid
random_partition(g, word_ids) == PartitionFitted(fit_to_size(g), word_ids)

(* grid/validity.rs *)

\* check_all_neighbours_compatible on every cell: any two orthogonally adjacent letter cells of g share a word that runs
\* in the direction that joins them
AdjacentLettersLinked(g) ==
    \A l \in DOMAIN g.cell_map, d \in Directions :
        LET n == relative_location_directed(l, 1, d)
        IN (/\ HasCell(g, n)
            /\ contains_letter(g.cell_map[l])
            /\ contains_letter(g.cell_map[n]))
           => /\ cell_get_word_id(g.cell_map[l], d) # {}
              /\ cell_get_word_id(g.cell_map[l], d)
                    = cell_get_word_id(g.cell_map[n], d)

----------------------------------------------------------------------------
(* grid/random.rs: PlacementAttemptIterator and place_random_word *)

\* all orders a seeded shuffle can leave the sorted Vec of a set in
ShufflesOfSet(set) ==
    {p \in [1 .. Cardinality(set) -> set] :
        \A i, j \in 1 .. Cardinality(set) : i # j => p[i] # p[j]}

\* the open slots of the letter c: the cells of one word that hold c, each
\* with the direction that is still free there
LetterLocations(g, c) ==
    {<<l, IF get_across_word_id(g.cell_map[l]) # {} THEN Down ELSE Across>> :
        l \in {x \in DOMAIN g.cell_map :
                /\ contains_letter(g.cell_map[x])
                /\ ~is_intersection(g.cell_map[x])
                /\ to_char(g.cell_map[x]) = c}}

Letters(g) ==
    UNION {SeqToSet(g.word_map[id].word_text) : id \in DOMAIN g.word_map}

\* the maps letter_to_locations that PlacementAttemptIterator::new can build
LetterToLocations(g) ==
    {f \in [Letters(g) ->
                UNION {ShufflesOfSet(LetterLocations(g, c)) : c \in Letters(g)}] :
        \A c \in Letters(g) : f[c] \in ShufflesOfSet(LetterLocations(g, c))}

\* remaining_locations.pop() takes the last location first
LocationAttempts(word_id, index_in_word, locations) ==
    [i \in 1 .. Len(locations) |->
        [word_id |-> word_id, index_in_word |-> index_in_word,
         location |-> locations[Len(locations) + 1 - i][1],
         direction |-> locations[Len(locations) + 1 - i][2]]]

RECURSIVE WordAttempts(_, _, _, _)
WordAttempts(word_id, word_text, index_in_word, letter_to_locations) ==
    IF index_in_word >= Len(word_text) THEN <<>>
    ELSE LocationAttempts(word_id, index_in_word,
                          letter_to_locations[word_text[index_in_word + 1]])
         \o WordAttempts(word_id, word_text, index_in_word + 1,
                         letter_to_locations)

\* the attempts in the order the iterator yields them; words.pop() takes the
\* last word first
RECURSIVE AllAttempts(_, _, _)
AllAttempts(g, words, letter_to_locations) ==
    IF words = <<>> THEN <<>>
    ELSE WordAttempts(words[Len(words)],
                      g.word_map[words[Len(words)]].word_text, 0,
                      letter_to_locations)
         \o AllAttempts(g, SubSeq(words, 1, Len(words) - 1),
                        letter_to_locations)

\* try_place_word_in_cell_connected is not among the sources; it is taken
\* from the description of placement: the word is placed as by
\* try_place_word_in_cell, the placement is refused when it leaves the
\* words disconnected or two adjacent letters without a common word, and a
\* refused placement leaves the grid as it was
TryPlaceConnected(g, r) ==
    IF r.grid.panic THEN [grid |-> r.grid, success |-> FALSE]
    ELSE IF r.err = "Ok" /\ is_connected(to_graph(r.grid))
            /\ AdjacentLettersLinked(r.grid)
    THEN [grid |-> r.grid, success |-> TRUE]
    ELSE [grid |-> g, success |-> FALSE]

try_place_word_in_cell_connected(g, location, word_id, index_in_word, word_direction) ==
    TryPlaceConnected(g, try_place_word_in_cell(g, location, word_id,
                                                index_in_word, word_direction))

\* the while loop of place_random_word
RECURSIVE PlaceFirst(_, _)
\* a loop that stops after the first attempt, placed or not
PlaceFirstTried_stop(r, attempts) == r

PlaceFirstTried(r, attempts) ==
    IF r.success \/ r.grid.panic THEN r ELSE PlaceFirst(r.grid, attempts)

PlaceFirst(g, attempts) ==
    IF attempts = <<>> THEN [grid |-> g, success |-> FALSE]
    ELSE PlaceFirstTried(
            try_place_word_in_cell_connected(g, Head(attempts).location,
                Head(attempts).word_id, Head(attempts).index_in_word,
                Head(attempts).direction),
            Tail(attempts))

\* only the word that comes first in the shuffled order is tried
place_random_word_first_word_only(g) ==
    {PlaceFirst(g, AllAttempts(g, IF words = <<>> THEN <<>>
                                  ELSE <<words[Len(words)]>>,
                               letter_to_locations)) :
        words \in Shuffles(sorted_vec_from_set(
                    DOMAIN g.word_map \ PlacedWordIds(g))),
        letter_to_locations \in LetterToLocations(g)}

\* the outcomes of place_random_word(seed) over the seeds: the grid and
\* the value returned
place_random_word(g) ==
    {PlaceFirst(g, AllAttempts(g, words, letter_to_locations)) :
        words \in Shuffles(sorted_vec_from_set(
                    DOMAIN g.word_map \ PlacedWordIds(g))),
        letter_to_locations \in LetterToLocations(g)}

----------------------------------------------------------------------------
(* utils.rs and grid/matrix.rs: the rasters and their compatibility *)

\* An Array2 of nrows x ncols is a function from <<row, col>>, counted from
\* 0, to its entries
Indices(nrows, ncols) == (0 .. nrows - 1) \X (0 .. ncols - 1)

Zeros(nrows, ncols) == [ij \in Indices(nrows, ncols) |-> 0]

\* utils::shift_by_row: row i takes row i + 1, the last row is zero; the
\* slice 1.. panics on an array without rows, which no raster is
shift_by_row(a, nrows, ncols) ==
    [ij \in Indices(nrows, ncols) |->
        IF ij[1] + 1 <= nrows - 1 THEN a[<<ij[1] + 1, ij[2]>>] ELSE 0]

shift_by_col(a, nrows, ncols) ==
    [ij \in Indices(nrows, ncols) |->
        IF ij[2] + 1 <= ncols - 1 THEN a[<<ij[1], ij[2] + 1>>] ELSE 0]

binarise_array(a) == [ij \in DOMAIN a |-> IF a[ij] # 0 THEN 1 ELSE 0]

Abs(x) == IF x < 0 THEN -x ELSE x

\* a thresholding that forgets the threshold
binarise_array_threshold_nonzero(a, thresh) ==
    [ij \in DOMAIN a |-> IF a[ij] # 0 THEN 1 ELSE 0]

binarise_array_threshold(a, thresh) ==
    [ij \in DOMAIN a |-> IF Abs(a[ij]) > thresh THEN 1 ELSE 0]

\* the entries of the rasters: cell_to_i16
EmptyValue == 0
BlackValue == 1
LetterBase == 2

VALID_ANSWERCHARS ==
    <<"A", "B", "C", "D", "E", "F", "G", "H", "I", "J", "K", "L", "M",
      "N", "O", "P", "Q", "R", "S", "T", "U", "V", "W", "X", "Y", "Z">>

\* str::find on VALID_ANSWERCHARS, counted from 0; the unwrap panics on
\* any other character, which no cell holds
CharIndex(c) == (CHOOSE i \in 1 .. Len(VALID_ANSWERCHARS) :
                    VALID_ANSWERCHARS[i] = c) - 1

cell_to_i16(cell) ==
    IF is_empty(cell) THEN EmptyValue
    ELSE IF is_black(cell) THEN BlackValue
    ELSE CharIndex(to_char(cell)) + LetterBase

\* count_squares: the number of entries that are non-zero together with
\* their neighbours below, to the right, and below to the right
count_squares(a, nrows, ncols) ==
    LET a_binary == binarise_array(a)
        row_shifted == shift_by_row(a_binary, nrows, ncols)
        col_shifted == shift_by_col(a_binary, nrows, ncols)
        both_shifted == shift_by_col(row_shifted, nrows, ncols)
    IN Cardinality({ij \in Indices(nrows, ncols) :
            a_binary[ij] + row_shifted[ij] + col_shifted[ij]
                + both_shifted[ij] = 4})

look_for_squares(a, nrows, ncols) == count_squares(a, nrows, ncols) > 0

\* CrosswordGridMatrix { matrix, row_shift, col_shift, nrows, ncols }
MatrixEmpty(nrows, ncols, row_shift, col_shift) ==
    [matrix |-> Zeros(nrows, ncols), row_shift |-> row_shift,
     col_shift |-> col_shift, nrows |-> nrows, ncols |-> ncols]

padded_to_size(m, nrows, ncols) ==
    [matrix |-> [ij \in Indices(nrows, ncols) |->
                    IF ij[1] < m.nrows /\ ij[2] < m.ncols THEN m.matrix[ij]
                    ELSE 0],
     row_shift |-> m.row_shift, col_shift |-> m.col_shift,
     nrows |-> nrows, ncols |-> ncols]

shifted(m, extra_rows, extra_cols) ==
    [matrix |-> [ij \in Indices(m.nrows + extra_rows, m.ncols + extra_cols) |->
                    IF ij[1] >= extra_rows /\ ij[2] >= extra_cols
                    THEN m.matrix[<<ij[1] - extra_rows, ij[2] - extra_cols>>]
                    ELSE 0],
     row_shift |-> m.row_shift + extra_rows,
     col_shift |-> m.col_shift + extra_cols,
     nrows |-> m.nrows + extra_rows, ncols |-> m.ncols + extra_cols]

\* the end of assess_compatability: padded1 and padded2 have one shape
AssessPadded(padded1, padded2, other_row_shift, other_col_shift) ==
    LET nonempty_cells_shared ==
            [ij \in DOMAIN padded1.matrix |->
                padded1.matrix[ij] * padded2.matrix[ij]]
        cells_mismatch ==
            [ij \in DOMAIN padded1.matrix |->
                padded1.matrix[ij] - padded2.matrix[ij]]
        num_overlaps ==
            Cardinality({ij \in DOMAIN padded1.matrix :
                            nonempty_cells_shared[ij] > 1})
        grids_overlap == num_overlaps # 0
        no_mismatches ==
            \A ij \in DOMAIN padded1.matrix :
                nonempty_cells_shared[ij] * cells_mismatch[ij] = 0
        b1 == binarise_array_threshold(padded1.matrix, 1)
        b2 == binarise_array_threshold(padded2.matrix, 1)
        nonempty_cells_after_merge ==
            [ij \in DOMAIN padded1.matrix |-> b1[ij] + b2[ij]]
        squares_present ==
            look_for_squares(nonempty_cells_after_merge, padded1.nrows,
                             padded1.ncols)
    IN [row_shift |-> other_row_shift, col_shift |-> other_col_shift,
        num_overlaps |-> num_overlaps,
        compatible |-> grids_overlap /\ no_mismatches /\ ~squares_present]

AssessShifted(shifted1, shifted2, other_row_shift, other_col_shift) ==
    AssessPadded(
        padded_to_size(shifted1, Max(shifted1.nrows, shifted2.nrows),
                       Max(shifted1.ncols, shifted2.ncols)),
        padded_to_size(shifted2, Max(shifted1.nrows, shifted2.nrows),
                       Max(shifted1.ncols, shifted2.ncols)),
        other_row_shift, other_col_shift)

\* the first raster is never shifted, whatever the sign of the offset
assess_compatability_self_unshifted(m, other, other_row_shift, other_col_shift) ==
    AssessShifted(
        shifted(m, 0, 0),
        shifted(other, Max(0, other_row_shift), Max(0, other_col_shift)),
        other_row_shift, other_col_shift)

assess_compatability(m, other, other_row_shift, other_col_shift) ==
    AssessShifted(
        shifted(m, Max(0, - other_row_shift), Max(0, - other_col_shift)),
        shifted(other, Max(0, other_row_shift), Max(0, other_col_shift)),
        other_row_shift, other_col_shift)

compatible_with_matrix(m, other, other_row_shift, other_col_shift) ==
    assess_compatability(m, other, other_row_shift,
                         other_col_shift).compatible

\* to_matrix: the cells of the bounding box, the top left cell at <<0, 0>>;
\* the unwrap panics on a missing cell
ToMatrixPanics(g) ==
    \E row \in Top(g) .. Bottom(g), col \in Left(g) .. Right(g) :
        ~HasCell(g, <<row, col>>)

get_grid_dimensions_with_buffer(g) ==
    <<Bottom(g) - Top(g) + 1, Right(g) - Left(g) + 1>>

to_matrix(g) ==
    [matrix |-> [ij \in Indices(get_grid_dimensions_with_buffer(g)[1],
                                get_grid_dimensions_with_buffer(g)[2]) |->
                    cell_to_i16(g.cell_map[<<ij[1] + Top(g),
                                             ij[2] + Left(g)>>])],
     row_shift |-> - Top(g), col_shift |-> - Left(g),
     nrows |-> get_grid_dimensions_with_buffer(g)[1],
     ncols |-> get_grid_dimensions_with_buffer(g)[2]]

\* the body of the loops of find_best_probably_compatible_configuration;
\* best_result is an Option, a set of at most one result.
\* A scan that keeps the last of the results of equal overlaps
ScanKeep_last_of_equals(best_result, result) ==
    IF ~result.compatible THEN best_result
    ELSE IF best_result = {} THEN {result}
    ELSE IF \E best \in best_result : best.num_overlaps <= result.num_overlaps
    THEN {result}
    ELSE best_result

ScanKeep(best_result, result) ==
    IF ~result.compatible THEN best_result
    ELSE IF best_result = {} THEN {result}
    ELSE IF \E best \in best_result : best.num_overlaps < result.num_overlaps
    THEN {result}
    ELSE best_result

\* the inner loop: col_shift in min_col_shift ..= max_col_shift
RECURSIVE ScanCols(_, _, _, _, _)
ScanColsNext(m, other, row_shift, col_shift, kept) ==
    IF kept = {} THEN ScanCols(m, other, row_shift, col_shift, {})
    ELSE ScanCols(m, other, row_shift, col_shift, kept)

ScanCols(m, other, row_shift, col_shift, best_result) ==
    IF col_shift > m.ncols THEN best_result
    ELSE ScanColsNext(m, other, row_shift, col_shift + 1,
            ScanKeep(best_result,
                assess_compatability(m, other, row_shift, col_shift)))

\* the outer loop: row_shift in min_row_shift ..= max_row_shift
RECURSIVE ScanRows(_, _, _, _)
ScanRowsNext(m, other, row_shift, kept) ==
    IF kept = {} THEN ScanRows(m, other, row_shift, {})
    ELSE ScanRows(m, other, row_shift, kept)

ScanRows(m, other, row_shift, best_result) ==
    IF row_shift > m.nrows THEN best_result
    ELSE ScanRowsNext(m, other, row_shift + 1,
            ScanCols(m, other, row_shift, - other.ncols, best_result))

\* Option<((row_shift, col_shift), num_overlaps)>: a set of at most one
find_best_probably_compatible_configuration(m, other) ==
    {[shift |-> <<best.row_shift, best.col_shift>>,
      overlaps |-> best.num_overlaps] :
        best \in ScanRows(m, other, - other.nrows, {})}

ShiftedConfiguration(self_matrix, other_matrix, configuration) ==
    {[shift |-> <<c.shift[1] - self_matrix.row_shift + other_matrix.row_shift,
                  c.shift[2] - self_matrix.col_shift + other_matrix.col_shift>>,
      overlaps |-> c.overlaps] : c \in configuration}

find_best_probably_compatible_configuration_for_merge(g, other) ==
    ShiftedConfiguration(to_matrix(g), to_matrix(other),
        find_best_probably_compatible_configuration(to_matrix(g),
                                                    to_matrix(other)))

----------------------------------------------------------------------------
(* grid/validity.rs: black_cells_valid *)

\* the unwrap of the second loop panics on an expected black cell that the
\* cell map does not hold
BlackCellsValidPanics(g) ==
    \E l \in get_expected_black_cells(g) : ~HasCell(g, l)

black_cells_valid(g) ==
    /\ \A l \in DOMAIN g.cell_map :
            is_black(g.cell_map[l]) => l \in get_expected_black_cells(g)
    /\ \A l \in get_expected_black_cells(g) : is_black(g.cell_map[l])

----------------------------------------------------------------------------
(* grid/merge.rs *)

\* other.word_map.get(word_id).unwrap() is reached for the placed words of
\* self and panics on an id that other does not hold
WordsPlacedPanics(g, other) ==
    \E word_id \in DOMAIN g.word_map :
        is_placed(g.word_map[word_id]) /\ ~HasWord(other, word_id)

\* a test that lets every pair of grids through
words_placed_compatible_always(g, other) == TRUE

words_placed_compatible(g, other) ==
    ~ \E word_id \in DOMAIN g.word_map :
        is_placed(g.word_map[word_id]) /\ is_placed(other.word_map[word_id])

grow_to_fit_merge(g, other, row_shift, col_shift) ==
    expand_to_fit_cell(
        expand_to_fit_cell(g, <<Min(Top(other) + row_shift, Top(g)),
                                Min(Left(other) + col_shift, Left(g))>>),
        <<Max(Bottom(other) + row_shift, Bottom(g)),
          Max(Right(other) + col_shift, Right(g))>>)

\* merge_with_grid calls try_place_word_in_cell with a fifth argument true
\* and takes a bool from it.  That form is not among the sources; it is
\* taken from the description of merging, which re-places the words by the
\* ordinary placement with its whole validation: the connected placement.
MergePlace(g, shifted_location, word_id, direction) ==
    try_place_word_in_cell_connected(g, shifted_location, word_id, 0,
                                     direction)

\* the loop of merge_with_grid over the placed words of other, in the
\* order the hash map yields them
RECURSIVE MergeWords(_, _, _, _, _)
MergePlaced(r, other, row_shift, col_shift, rest) ==
    IF r.success /\ ~r.grid.panic
    THEN MergeWords(r.grid, other, row_shift, col_shift, rest)
    ELSE Panic(r.grid)

\* a loop that places the words where the other grid has them
MergeWord_unshifted(g, other_word, word_id, other, row_shift, col_shift, rest) ==
    IF ~HasWord(g, word_id) THEN Panic(g)
    ELSE IF is_placed(g.word_map[word_id]) THEN Panic(g)
    ELSE MergePlaced(
            MergePlace(g, other_word.start_location, word_id,
                       other_word.direction),
            other, row_shift, col_shift, rest)

MergeWord(g, other_word, word_id, other, row_shift, col_shift, rest) ==
    IF ~HasWord(g, word_id) THEN Panic(g)
    ELSE IF is_placed(g.word_map[word_id]) THEN Panic(g)
    ELSE MergePlaced(
            MergePlace(g, relative_location(other_word.start_location,
                                            row_shift, col_shift),
                       word_id, other_word.direction),
            other, row_shift, col_shift, rest)

MergeWords(g, other, row_shift, col_shift, order) ==
    IF g.panic \/ order = <<>> THEN g
    ELSE MergeWord(g,
            CHOOSE p \in get_location(other.word_map[Head(order)]) : TRUE,
            Head(order), other, row_shift, col_shift, Tail(order))

MergeChecked(g) ==
    IF g.panic THEN g
    ELSE IF check_valid(g) THEN g
    ELSE Panic(g)

\* order: the placed words of other as the iteration of its word map
\* yields them
merge_with_grid(g, other, row_shift, col_shift, order) ==
    IF g.panic THEN g
    ELSE IF BlackCellsValidPanics(other) THEN Panic(g)
    ELSE IF ~black_cells_valid(other) THEN Panic(g)
    ELSE MergeChecked(
            MergeWords(
                fill_black_cells(
                    grow_to_fit_merge(g, other, row_shift, col_shift)),
                other, row_shift, col_shift, order))

\* try_merge_with_grid calls find_best_compatible_configuration_for_merge,
\* which is not among the sources and yields the shifts alone; it is taken
\* from the description of try_merge_with_grid, which delegates to the
\* search for the best probably compatible configuration.
find_best_compatible_configuration_for_merge(g, other) ==
    {c.shift :
        c \in find_best_probably_compatible_configuration_for_merge(g, other)}

TryMergeConfigured(g, other, configuration, order) ==
    IF configuration = {} THEN [grid |-> g, success |-> FALSE]
    ELSE [grid |-> merge_with_grid(g, other,
                        (CHOOSE c \in configuration : TRUE)[1],
                        (CHOOSE c \in configuration : TRUE)[2], order),
          success |-> TRUE]

try_merge_with_grid(g, other, order) ==
    IF g.panic THEN [grid |-> g, success |-> FALSE]
    ELSE IF WordsPlacedPanics(g, other)
    THEN [grid |-> Panic(g), success |-> FALSE]
    ELSE IF ~words_placed_compatible(g, other)
    THEN [grid |-> g, success |-> FALSE]
    ELSE IF ToMatrixPanics(g) \/ ToMatrixPanics(other)
    THEN [grid |-> Panic(g), success |-> FALSE]
    ELSE TryMergeConfigured(g, other,
            find_best_compatible_configuration_for_merge(g, other), order)

----------------------------------------------------------------------------
(* The grid as a state machine: a singleton grid is built from the word     *)
(* list, then words are placed, unplaced and partitioned.                   *)

NoResult == [op |-> "none"]

\* the word list: word ids are positions in the list, counted from 0
WordList == <<<<"A", "B">>, <<"A", "B">>, <<"A", "B">>>>

WordIds == 0 .. Len(WordList) - 1

\* the words a singleton grid is built around
FirstWordIds == {0}

\* the direction each word of the list requires (none, or one direction)
RequiredDirections == <<{}, {}, {Down}>>

InitialWordMap ==
    [id \in WordIds |->
        new_unplaced(WordList[id + 1], RequiredDirections[id + 1])]

\* no grid: the value of second_grid before any random_partition
NoGrid == [cell_map |-> <<>>, word_map |-> <<>>,
           top_left_cell_index |-> <<0, 0>>,
           bottom_right_cell_index |-> <<0, 0>>, panic |-> FALSE]

AnchorLocations(g) ==
    (Top(g) - AnchorMargin .. Bottom(g) + AnchorMargin)
        \X (Left(g) - AnchorMargin .. Right(g) + AnchorMargin)

InitGrid ==
    /\ \E word_id \in FirstWordIds, direction \in Directions :
            grid = new_from_wordmap_single_placed(word_id, direction,
                                                  InitialWordMap)
    /\ second_grid = NoGrid
    /\ prev_grid = grid
    /\ last_op = [op |-> "new_from_wordmap_single_placed"]
    /\ ops = [place |-> 0, remove |-> 0]
    /\ graph = EmptyGraph
    /\ gres = NoResult
    /\ generator = NoGenerator
    /\ run = NoGenerator
    /\ pick = NoGenerator
    /\ call = NoCall

PlaceWordInCell ==
    /\ ~grid.panic
    /\ ops.place < MaxPlaceOps
    /\ ops' = [ops EXCEPT !.place = @ + 1]
    /\ \E word_id \in WordIds,
          location \in AnchorLocations(grid),
          direction \in Directions :
        \E index_in_word \in 0 .. Len(WordList[word_id + 1]) - 1 :
            \E r \in {place_word_in_cell(grid, location, word_id,
                                         index_in_word, direction)} :
               /\ grid' = r.grid
               /\ last_op' = [op |-> "place_word_in_cell",
                              word_id |-> word_id,
                              start_location |->
                                  StartLocation(location, index_in_word,
                                                direction),
                              direction |-> direction, err |-> r.err]
    /\ prev_grid' = grid
    /\ UNCHANGED <<second_grid, graphVars, genVars>>

TryPlaceWordInCell ==
    /\ ~grid.panic
    /\ ops.place < MaxPlaceOps
    /\ ops' = [ops EXCEPT !.place = @ + 1]
    /\ \E word_id \in WordIds \cup {Len(WordList)},
          location \in AnchorLocations(grid),
          direction \in Directions :
        \E index_in_word \in
                0 .. (IF word_id \in WordIds
                      THEN Len(WordList[word_id + 1]) - 1 ELSE 0) :
            \E r \in {try_place_word_in_cell(grid, location, word_id,
                                             index_in_word, direction)} :
               /\ grid' = r.grid
               /\ last_op' = [op |-> "try_place_word_in_cell",
                              word_id |-> word_id,
                              start_location |->
                                  StartLocation(location, index_in_word,
                                                direction),
                              direction |-> direction, err |-> r.err]
    /\ prev_grid' = grid
    /\ UNCHANGED <<second_grid, graphVars, genVars>>

UnplaceWord ==
    /\ ~grid.panic
    /\ ops.remove < MaxRemoveOps
    /\ ops' = [ops EXCEPT !.remove = @ + 1]
    /\ \E word_id \in WordIds :
        /\ grid' = unplace_word(grid, word_id)
        /\ last_op' = [op |-> "unplace_word", word_id |-> word_id,
                       err |-> IF grid'.panic THEN "Panic" ELSE "Ok"]
    /\ prev_grid' = grid
    /\ UNCHANGED <<second_grid, graphVars, genVars>>

RemoveRandomLeaves ==
    /\ ~grid.panic
    /\ ops.remove < MaxRemoveOps
    /\ ops' = [ops EXCEPT !.remove = @ + 1]
    /\ \E num_leaves \in 0 .. MaxLeaves,
          leaves \in Shuffles(find_leaves(to_graph(grid))) :
        /\ grid' = remove_random_leaves(grid, num_leaves, leaves)
        /\ last_op' = [op |-> "remove_random_leaves",
                       num_leaves |-> num_leaves,
                       err |-> IF grid'.panic THEN "Panic" ELSE "Ok"]
    /\ prev_grid' = grid
    /\ UNCHANGED <<second_grid, graphVars, genVars>>

RandomPartition ==
    /\ ~grid.panic
    /\ ops.remove < MaxRemoveOps
    /\ ops' = [ops EXCEPT !.remove = @ + 1]
    /\ \E word_ids \in Shuffles(sorted_vec_from_set(PlacedWordIds(grid))) :
        \E r \in {random_partition(grid, word_ids)} :
           /\ grid' = r.self
           /\ second_grid' = r.second
           /\ last_op' = [op |-> "random_partition",
                          err |-> IF r.self.panic \/ r.second.panic
                                  THEN "Panic" ELSE "Ok"]
    /\ prev_grid' = grid
    /\ UNCHANGED <<graphVars, genVars>>

NextGrid ==
    \/ PlaceWordInCell
    \/ TryPlaceWordInCell
    \/ UnplaceWord
    \/ RemoveRandomLeaves
    \/ RandomPartition

Spec == InitGrid /\ [][NextGrid]_vars

----------------------------------------------------------------------------
(* The graph as a state machine: edges and nodes are added, queries are made. *)
(* An edge joins two different nodes, as every edge built from a grid does    *)
(* (an intersection joins an across word and a down word).                    *)

InitGraph ==
    /\ graph = EmptyGraph
    /\ gres = NoResult
    /\ generator = NoGenerator
    /\ run = NoGenerator
    /\ pick = NoGenerator
    /\ call = NoCall
    /\ grid = NoGrid
    /\ second_grid = NoGrid
    /\ prev_grid = NoGrid
    /\ last_op = [op |-> "none"]
    /\ ops = [place |-> 0, remove |-> 0]

AddEdges ==
    \E a \in NodeIds, b \in NodeIds :
        /\ a # b
        /\ count_edges(graph) < MaxEdges
        /\ graph' = add_edges(graph, <<<<a, b>>>>)
        /\ gres' = NoResult
        /\ UNCHANGED <<gridVars, genVars>>

AddNode ==
    \E a \in NodeIds :
        /\ ~HasNode(graph, a)
        /\ graph' = add_node(graph, a)
        /\ gres' = NoResult
        /\ UNCHANGED <<gridVars, genVars>>

PartitionNodes ==
    \E a \in NodeIds, b \in NodeIds :
        /\ gres' = [op |-> "partition_nodes", first_node |-> a, second_node |-> b,
                    res |-> partition_nodes(graph, a, b)]
        /\ UNCHANGED <<graph, gridVars, genVars>>

NextGraph == AddEdges \/ AddNode \/ PartitionNodes

SpecGraph == InitGraph /\ [][NextGraph]_vars

----------------------------------------------------------------------------
(* The graph with all of its operations: edges, edges from a node to       *)
(* itself and single nodes are added, a node is deleted, and the counts    *)
(* and tests are called.                                                    *)

MaxOpsNode == 2
MaxOpsEdges == 3
MaxLoops == 2
MaxDeletes == 1

OpsNodeIds == 0 .. MaxOpsNode

\* the nodes that have an edge to themselves
LoopNodes(g) ==
    {n \in DOMAIN g.node_map : n \in get_node(g, n).connected_nodes}

\* add_edges(vec![(a, b)]) with two different nodes
AddEdge ==
    \E a \in OpsNodeIds, b \in OpsNodeIds :
        /\ a # b
        /\ count_edges(graph) < MaxOpsEdges
        /\ graph' = add_edges(graph, <<<<a, b>>>>)
        /\ gres' = NoResult
        /\ UNCHANGED <<gridVars, genVars>>

\* add_edges(vec![(a, a)])
AddLoop ==
    \E a \in OpsNodeIds :
        /\ Cardinality(LoopNodes(graph)) < MaxLoops
        /\ a \notin LoopNodes(graph)
        /\ graph' = add_edges(graph, <<<<a, a>>>>)
        /\ gres' = NoResult
        /\ UNCHANGED <<gridVars, genVars>>

AddSingleNode ==
    \E a \in OpsNodeIds :
        /\ ~HasNode(graph, a)
        /\ graph' = add_node(graph, a)
        /\ gres' = NoResult
        /\ UNCHANGED <<gridVars, genVars>>

CountCycles ==
    /\ \E r \in CountCyclesOutcomes(graph) :
        gres' = [op |-> "count_cycles", panic |-> r.panic,
                 wrapped |-> r.wrapped, value |-> r.value]
    /\ UNCHANGED <<graph, gridVars, genVars>>

IsConnected ==
    /\ gres' = [op |-> "is_connected", res |-> is_connected(graph)]
    /\ UNCHANGED <<graph, gridVars, genVars>>

ComponentsAfterDeletingNode ==
    /\ ops.remove < MaxDeletes
    /\ ops' = [ops EXCEPT !.remove = @ + 1]
    /\ \E node_id \in OpsNodeIds :
        \E neighbours \in Shuffles(sorted_vec_from_set(
                IF HasNode(graph, node_id)
                THEN get_node(graph, node_id).connected_nodes ELSE {})) :
            \E r \in {components_after_deleting_node(graph, node_id,
                                                       neighbours)} :
                /\ graph' = r.graph
                /\ gres' = [op |-> "components_after_deleting_node",
                            node_id |-> node_id, before |-> graph,
                            err |-> r.err, components |-> r.components]
    /\ UNCHANGED <<grid, second_grid, prev_grid, last_op, genVars>>

PartitionPair ==
    \E a \in OpsNodeIds, b \in OpsNodeIds :
        /\ gres' = [op |-> "partition_nodes", first_node |-> a, second_node |-> b,
                    res |-> partition_nodes(graph, a, b)]
        /\ UNCHANGED <<graph, gridVars, genVars>>

NextGraphOps ==
    \/ AddEdge
    \/ AddLoop
    \/ AddSingleNode
    \/ CountCycles
    \/ IsConnected
    \/ ComponentsAfterDeletingNode
    \/ PartitionPair

SpecGraphOps == InitGraph /\ [][NextGraphOps]_vars

----------------------------------------------------------------------------
(* grid/properties.rs and the score of generator/mod.rs.  The score is an  *)
(* f64 in the code; here it is the exact fraction num / den, and the cast  *)
(* `as isize` truncates it towards zero (NaN, from 0.0 / 0.0, casts to 0). *)
(* The scores of the grids within the bounds of the model are multiples of *)
(* 1/2, which an f64 holds exactly.                                        *)

count_unplaced_words(g) ==
    Cardinality(DOMAIN g.word_map \ PlacedWordIds(g))

count_intersections(g) ==
    Cardinality({l \in DOMAIN g.cell_map : is_intersection(g.cell_map[l])})

\* (nrows, ncols) without the buffer
get_grid_dimensions(g) ==
    <<Bottom(g) - Top(g) - 1, Right(g) - Left(g) - 1>>

count_filled_cells(g) ==
    Cardinality({l \in DOMAIN g.cell_map : contains_letter(g.cell_map[l])})

count_cycles(gr) == count_edges(gr) + 1 - count_nodes(gr)

\* the subtraction is made on usize: it overflows on a graph of more than
\* one component, which ends the call when overflow checks are compiled in
CountCyclesOverflows(gr) == count_nodes(gr) > count_edges(gr) + 1

\* the cells of a placed word
WordLocations(word) ==
    {relative_location_directed(p.start_location, i, p.direction) :
        i \in 0 .. Len(word.word_text) - 1, p \in word.placement}

\* intersections / cells of one placed word, as <<num, den>>
WordIntersections(g, word) ==
    <<Cardinality({l \in WordLocations(word) :
                    is_intersection(g.cell_map[l])}),
      Len(word.word_text)>>

FracAdd(a, b) == <<a[1] * b[2] + b[1] * a[2], a[2] * b[2]>>

\* the sum of percent_intersection_per_word over the placed words word_ids
RECURSIVE SumWordIntersections(_, _)
SumWordIntersections(g, word_ids) ==
    IF word_ids = <<>> THEN <<0, 1>>
    ELSE FracAdd(WordIntersections(g, g.word_map[Head(word_ids)]),
                 SumWordIntersections(g, Tail(word_ids)))

\* average_intersections_per_word panics on a word one of whose cells is
\* missing or holds no letter
AverageIntersectionsPanics(g) ==
    \E id \in PlacedWordIds(g) : \E l \in WordLocations(g.word_map[id]) :
        ~HasCell(g, l) \/ ~contains_letter(g.cell_map[l])

\* <<num, den>>; den is 0 when no word is placed (0.0 / 0.0)
AverageOf(sum, placed) == <<sum[1], sum[2] * placed>>

average_intersections_per_word(g) ==
    AverageOf(SumWordIntersections(g, sorted_vec_from_set(PlacedWordIds(g))),
              count_placed_words(g))

\* the cast of the f64 num / den to isize
Truncate(num, den) ==
    IF den = 0 THEN 0
    ELSE IF num >= 0 THEN num \div den ELSE -((-num) \div den)

\* CrosswordGridScore::new, the field summary; its parameters are the
\* measures of the grid
ScoreSummary(settings, dims, filled_cells, words_placed, num_cycles, num_intersections, average) ==
    FracAdd(
        FracAdd(<<filled_cells * settings.weight_prop_filled,
                  dims[1] * dims[2]>>,
                <<num_intersections * 2 * settings.weight_prop_intersect,
                  filled_cells + num_intersections>>),
        FracAdd(<<average[1] * settings.weight_avg_intersect, average[2]>>,
                <<num_cycles * settings.weight_num_cycles
                  + num_intersections * settings.weight_num_intersect
                  + words_placed * settings.weight_words_placed
                  - (Max(dims[1], dims[2]) * Max(dims[1], dims[2])
                     - dims[1] * dims[2]) * settings.weight_non_square,
                  1>>))

score_grid(g, settings) ==
    ScoreSummary(settings, get_grid_dimensions(g), count_filled_cells(g),
                 count_placed_words(g), count_cycles(to_graph(g)),
                 count_intersections(g), average_intersections_per_word(g))

SummaryScore(summary) == Truncate(summary[1], summary[2])

\* CrosswordGridAttempt::new and update_score; the fields score and
\* move_counts are only ever written to the log and are left out
CrosswordGridAttemptNew(g, settings) ==
    IF g.panic \/ AverageIntersectionsPanics(g) \/ CountCyclesOverflows(to_graph(g))
    THEN [grid |-> Panic(g), summary_score |-> 0]
    ELSE [grid |-> g, summary_score |-> SummaryScore(score_grid(g, settings))]

(* generator/mod.rs: the settings and pick_best_varied *)

SettingOr(settings_map, key, default) ==
    IF key \in DOMAIN settings_map THEN settings_map[key] ELSE default

\* CrosswordGeneratorSettings::new_from_hashmap; the seed is left out: a
\* seeded random choice is a choice among all its outcomes here
new_from_hashmap(settings_map) ==
    [moves_between_scores |-> SettingOr(settings_map, "moves-between-scores", 4),
     num_children |-> SettingOr(settings_map, "num-children", 15),
     num_per_generation |-> SettingOr(settings_map, "num-per-gen", 15),
     max_rounds |-> SettingOr(settings_map, "max-rounds", 20),
     min_rounds |-> SettingOr(settings_map, "min-rounds", 10),
     weight_non_square |-> SettingOr(settings_map, "weight-non-square", 2),
     weight_prop_filled |-> SettingOr(settings_map, "weight-prop-filled", 10),
     weight_prop_intersect |->
        SettingOr(settings_map, "weight-prop-intersect", 500),
     weight_num_cycles |-> SettingOr(settings_map, "weight-num-cycles", 1000),
     weight_num_intersect |->
        SettingOr(settings_map, "weight-num-intersect", 100),
     weight_avg_intersect |->
        SettingOr(settings_map, "weight-avg-intersect", 5000),
     weight_words_placed |->
        SettingOr(settings_map, "weight-words-placed", 10)]

\* the matrix has a row and a column for every id up to the largest of the
\* word list; building it panics on a grid without words
AdjacencyPanics(g) == DOMAIN g.word_map = {}

MaxWordId(g) == CHOOSE m \in DOMAIN g.word_map : \A id \in DOMAIN g.word_map : id <= m

to_graph_adjacency_matrix(g) ==
    [e \in (0 .. MaxWordId(g)) \X (0 .. MaxWordId(g)) |->
        Cardinality({i \in 1 .. Len(get_all_intersections(g)) :
            \/ get_all_intersections(g)[i] = e
            \/ get_all_intersections(g)[i] = <<e[2], e[1]>>})]

\* intersection and union of calculate_similarity, as <<intersection, union>>;
\* the similarity is their quotient, NaN when the union is 0
SumOver(f, keys) ==
    IF keys = {} THEN 0
    ELSE Cardinality(UNION {{<<k, i>> : i \in 1 .. f[k]} : k \in keys})

calculate_similarity(adj1, adj2) ==
    <<SumOver([e \in DOMAIN adj1 |-> adj1[e] * adj2[e]], DOMAIN adj1),
      Cardinality({e \in DOMAIN adj1 : adj1[e] + adj2[e] > 0})>>

\* ((summary as f64) * (1.0 - similarity)) as isize
AdjustedScore(summary, similarity) ==
    IF similarity[2] = 0 THEN 0
    ELSE Truncate(summary * (similarity[2] - similarity[1]), similarity[2])

RemoveAt(vec, index) ==
    SubSeq(vec, 1, index - 1) \o SubSeq(vec, index + 1, Len(vec))

\* the first loop of pick_best_varied: the children whose rendering was not
\* met before, in their order
RECURSIVE UniqueChildren(_, _)
UniqueChildren(grid_attempts, unique_children) ==
    IF grid_attempts = <<>> THEN unique_children
    ELSE UniqueChildren(Tail(grid_attempts),
            IF \E i \in 1 .. Len(unique_children) :
                  to_string(unique_children[i].grid)
                    = to_string(Head(grid_attempts).grid)
            THEN unique_children
            ELSE Append(unique_children, Head(grid_attempts)))

\* Iterator::max_by_key returns the last of several equally large elements
BestIndex(adjusted_scores) ==
    CHOOSE i \in 1 .. Len(adjusted_scores) :
        /\ \A j \in 1 .. Len(adjusted_scores) :
                adjusted_scores[j] <= adjusted_scores[i]
        /\ \A j \in i + 1 .. Len(adjusted_scores) :
                adjusted_scores[j] < adjusted_scores[i]

AdjustScores_last_only(unique_children, adjusted_scores, best_attempt) ==
    [i \in 1 .. Len(unique_children) |->
        AdjustedScore(unique_children[i].summary_score,
            calculate_similarity(
                to_graph_adjacency_matrix(unique_children[i].grid),
                to_graph_adjacency_matrix(best_attempt.grid)))]

\* the for loop that lowers the adjusted scores of the children left
AdjustScores(unique_children, adjusted_scores, best_attempt) ==
    [i \in 1 .. Len(unique_children) |->
        Min(adjusted_scores[i],
            AdjustedScore(unique_children[i].summary_score,
                calculate_similarity(
                    to_graph_adjacency_matrix(unique_children[i].grid),
                    to_graph_adjacency_matrix(best_attempt.grid))))]

\* the while loop of pick_best_varied; the unwrap of max_by_key panics when
\* no child is left
RECURSIVE PickLoop(_, _, _, _)
PickRemove(unique_children, adjusted_scores, best_attempts, num_to_pick, best_index) ==
    PickLoop(RemoveAt(unique_children, best_index),
             AdjustScores(RemoveAt(unique_children, best_index),
                          RemoveAt(adjusted_scores, best_index),
                          unique_children[best_index]),
             Append(best_attempts, unique_children[best_index]),
             num_to_pick)

PickLoop(unique_children, adjusted_scores, best_attempts, num_to_pick) ==
    IF Len(best_attempts) >= num_to_pick
    THEN [attempts |-> best_attempts, panic |-> FALSE]
    ELSE IF unique_children = <<>>
    THEN [attempts |-> best_attempts, panic |-> TRUE]
    ELSE PickRemove(unique_children, adjusted_scores, best_attempts,
                    num_to_pick, BestIndex(adjusted_scores))

PickUnique(unique_children, num_to_pick) ==
    IF \E i \in 1 .. Len(unique_children) :
            AdjacencyPanics(unique_children[i].grid)
    THEN [attempts |-> <<>>, panic |-> TRUE]
    ELSE PickLoop(unique_children,
                  [i \in 1 .. Len(unique_children) |->
                        unique_children[i].summary_score],
                  <<>>, num_to_pick)

\* Vec<CrosswordGridAttempt>, or a panic
pick_best_varied(grid_attempts, num_to_pick) ==
    PickUnique(UniqueChildren(grid_attempts, <<>>), num_to_pick)

(* pick_best_varied as a state machine: it is called once, on a vector of   *)
(* attempts on grids of the word list.                                      *)

\* at most MaxCandidates attempts are handed to pick_best_varied
MaxCandidates == 3

DefaultSettings == new_from_hashmap(<<>>)

SingletonGrids(word_ids) ==
    {new_from_wordmap_single_placed(word_id, direction, InitialWordMap) :
        word_id \in word_ids, direction \in Directions}

\* grids of two crossing words: word 1 laid down through a letter of word 0
CrossingGrids ==
    {place_word_in_cell(
        new_from_wordmap_single_placed(0, Across, InitialWordMap),
        <<0, i>>, 1, i, Down).grid : i \in 0 .. 1}

CandidateGrids == SingletonGrids({0, 1}) \cup CrossingGrids

CandidateAttempts ==
    {CrosswordGridAttemptNew(g, DefaultSettings) : g \in CandidateGrids}

SeqsUpTo(set, n) == UNION {[1 .. k -> set] : k \in 0 .. n}

InitPick ==
    /\ pick \in [pc : {"call"},
                 grid_attempts : SeqsUpTo(CandidateAttempts, MaxCandidates),
                 num_to_pick : 0 .. MaxCandidates,
                 result : {<<>>}]
    /\ generator = NoGenerator
    /\ run = NoGenerator
    /\ call = NoCall
    /\ graph = EmptyGraph
    /\ gres = NoResult
    /\ grid = NoGrid
    /\ second_grid = NoGrid
    /\ prev_grid = NoGrid
    /\ last_op = [op |-> "none"]
    /\ ops = [place |-> 0, remove |-> 0]

PickBestVaried ==
    /\ pick.pc = "call"
    /\ \E r \in {pick_best_varied(pick.grid_attempts, pick.num_to_pick)} :
        pick' = [pick EXCEPT !.pc = IF r.panic THEN "panic" ELSE "returned",
                             !.result = r.attempts]
    /\ UNCHANGED <<generator, run, call, graphVars, gridVars>>

NextPick == PickBestVaried

SpecPick == InitPick /\ [][NextPick]_vars

(* fill_black_cells as an operation of its own, on the grids reached by     *)
(* placements and removals; repeat says that the call before it was a call  *)
(* of fill_black_cells too.                                                 *)

FillBlackCells ==
    /\ ~grid.panic
    /\ grid' = fill_black_cells(grid)
    /\ last_op' = [op |-> "fill_black_cells",
                   repeat |-> last_op.op = "fill_black_cells",
                   err |-> IF grid'.panic THEN "Panic" ELSE "Ok"]
    /\ prev_grid' = grid
    /\ UNCHANGED <<second_grid, ops, graphVars, genVars>>

NextBlack ==
    \/ PlaceWordInCell
    \/ UnplaceWord
    \/ FillBlackCells

SpecBlack == InitGrid /\ [][NextBlack]_vars

(* pick_best_varied step by step: the loop that removes duplicates, then    *)
(* one step per turn of the while loop, then the return.  The record of    *)
(* the call keeps the four vectors of the loop; the summaries and the      *)
(* adjacencies are read off the children.                                  *)

\* grids of three words: word 2 laid down through the second letter of
\* word 0, next to word 1
ThreeWordGrids ==
    {place_word_in_cell(
        place_word_in_cell(
            new_from_wordmap_single_placed(0, Across, InitialWordMap),
            <<0, 0>>, 1, 0, Down).grid,
        <<0, 1>>, 2, 1, Down).grid}

VariedGrids == SingletonGrids({0}) \cup CrossingGrids \cup ThreeWordGrids

VariedAttempts ==
    {CrosswordGridAttemptNew(g, DefaultSettings) : g \in VariedGrids}

NoPick == [best_index |-> 0, adjusted_scores |-> <<>>]

InitPickLoop ==
    /\ pick \in [pc : {"call"},
                 grid_attempts : SeqsUpTo(VariedAttempts, MaxCandidates),
                 num_to_pick : 0 .. MaxCandidates,
                 unique_children : {<<>>},
                 adjusted_scores : {<<>>},
                 best_attempts : {<<>>},
                 last : {NoPick}]
    /\ generator = NoGenerator
    /\ run = NoGenerator
    /\ call = NoCall
    /\ graph = EmptyGraph
    /\ gres = NoResult
    /\ grid = NoGrid
    /\ second_grid = NoGrid
    /\ prev_grid = NoGrid
    /\ last_op = [op |-> "none"]
    /\ ops = [place |-> 0, remove |-> 0]

\* the lines of pick_best_varied before the while loop
PickEnter ==
    /\ pick.pc = "call"
    /\ \E unique_children \in {UniqueChildren(pick.grid_attempts, <<>>)} :
        pick' = [pick EXCEPT
                    !.pc = IF \E i \in 1 .. Len(unique_children) :
                                AdjacencyPanics(unique_children[i].grid)
                           THEN "panic" ELSE "loop",
                    !.unique_children = unique_children,
                    !.adjusted_scores =
                        [i \in 1 .. Len(unique_children) |->
                            unique_children[i].summary_score]]
    /\ UNCHANGED <<generator, run, call, graphVars, gridVars>>

\* one turn of the while loop: the best child is taken out and the adjusted
\* scores of the others are lowered; the unwrap panics when no child is left
PickTurn ==
    /\ pick.pc = "loop"
    /\ Len(pick.best_attempts) < pick.num_to_pick
    /\ IF pick.unique_children = <<>>
       THEN pick' = [pick EXCEPT !.pc = "panic"]
       ELSE \E best_index \in {BestIndex(pick.adjusted_scores)} :
            pick' = [pick EXCEPT
                !.unique_children = RemoveAt(@, best_index),
                !.adjusted_scores =
                    AdjustScores(RemoveAt(pick.unique_children, best_index),
                                 RemoveAt(pick.adjusted_scores, best_index),
                                 pick.unique_children[best_index]),
                !.best_attempts =
                    Append(@, pick.unique_children[best_index]),
                !.last = [best_index |-> best_index,
                          adjusted_scores |-> pick.adjusted_scores]]
    /\ UNCHANGED <<generator, run, call, graphVars, gridVars>>

\* the while condition fails and best_attempts is returned
PickReturn ==
    /\ pick.pc = "loop"
    /\ Len(pick.best_attempts) >= pick.num_to_pick
    /\ pick' = [pick EXCEPT !.pc = "returned"]
    /\ UNCHANGED <<generator, run, call, graphVars, gridVars>>

NextPickLoop == PickEnter \/ PickTurn \/ PickReturn

SpecPickLoop == InitPickLoop /\ [][NextPickLoop]_vars

(* generator/mod.rs: the generator.  The fields next_generation_ancestors   *)
(* and next_generation_complete are empty whenever next_generation is not   *)
(* running and are left out of the record.  A seeded random choice is a     *)
(* choice among all its outcomes, so an operation that takes a seed yields  *)
(* a set of outcomes.                                                       *)

\* the word map of random_singleton_grids: the lines that do not parse are
\* skipped and the others keep the id of their position
ParsedWordMap(words) ==
    [id \in {i \in 0 .. Len(words) - 1 : new_parsed(words[i + 1]) # {}} |->
        CHOOSE word \in new_parsed(words[id + 1]) : TRUE]

SingletonDirections_any(word) == Directions

\* the directions among which the direction of the placed word is chosen
SingletonDirections(word) ==
    IF word.required_direction = {} THEN Directions
    ELSE word.required_direction

\* Vec<CrosswordGrid>: one grid per parsed word, the word laid in a direction
\* chosen at random unless the word asks for one
random_singleton_grids(words) ==
    {[i \in 1 .. Cardinality(DOMAIN ParsedWordMap(words)) |->
        new_from_wordmap_single_placed(
            sorted_vec_from_set(DOMAIN ParsedWordMap(words))[i],
            directions[i], ParsedWordMap(words))] :
     directions \in
        {d \in [1 .. Cardinality(DOMAIN ParsedWordMap(words)) -> Directions] :
            \A i \in DOMAIN d :
                d[i] \in SingletonDirections(ParsedWordMap(words)[
                    sorted_vec_from_set(DOMAIN ParsedWordMap(words))[i]])}}

NewGenerator(singletons, settings) ==
    [current_generation_ancestors |->
        [i \in 1 .. Len(singletons) |->
            CrosswordGridAttemptNew(singletons[i], settings)],
     current_generation_complete |-> <<>>,
     round |-> 0,
     settings |-> settings,
     panic |-> FALSE]

\* the argument singletons[0] of info! is evaluated when the log level
\* lets the line through, and panics on an empty vector
new_from_singletons(words, settings_map, info) ==
    {IF info /\ singletons = <<>>
     THEN [NewGenerator(singletons, new_from_hashmap(settings_map))
                EXCEPT !.panic = TRUE]
     ELSE NewGenerator(singletons, new_from_hashmap(settings_map)) :
     singletons \in random_singleton_grids(words)}

\* the grids produce_child can end with; g is the grid after `moves` moves.
\* Each move is PlaceWord or PruneLeaves; a PlaceWord that fails ends the loop
RECURSIVE ProduceChildGrids(_, _, _)
ProduceChildGrids(g, moves, moves_between_scores) ==
    IF g.panic \/ moves >= moves_between_scores THEN {g}
    ELSE UNION ({IF r.success
                 THEN ProduceChildGrids(r.grid, moves + 1, moves_between_scores)
                 ELSE {r.grid} : r \in place_random_word(g)}
            \cup {ProduceChildGrids(remove_random_leaves(g, 1, leaves),
                                    moves + 1, moves_between_scores) :
                  leaves \in Shuffles(find_leaves(to_graph(g)))})

produce_child(grid_attempt, settings) ==
    {CrosswordGridAttemptNew(g, settings) :
        g \in ProduceChildGrids(grid_attempt.grid, 0,
                                settings.moves_between_scores)}

RECURSIVE FillGrids(_)
FillGrids(g) ==
    IF g.panic THEN {g}
    ELSE UNION {IF r.success THEN FillGrids(r.grid) ELSE {r.grid} :
                r \in place_random_word(g)}

fill_grid(grid_attempt, settings) ==
    {CrosswordGridAttemptNew(g, settings) : g \in FillGrids(grid_attempt.grid)}

\* copied and other_half of one pass of the partition loop of
\* next_generation, or nothing when at most one word is placed
PartitionHalves(grid_attempt, settings) ==
    IF count_placed_words(grid_attempt.grid) > 1
    THEN {<<CrosswordGridAttemptNew(r.self, settings),
            CrosswordGridAttemptNew(r.second, settings)>> :
          r \in {random_partition(grid_attempt.grid, word_ids) :
                 word_ids \in Shuffles(sorted_vec_from_set(
                                PlacedWordIds(grid_attempt.grid)))}}
    ELSE {<<>>}

RECURSIVE Repeat(_, _)
Repeat(vec, n) == IF n <= 0 THEN <<>> ELSE vec \o Repeat(vec, n - 1)

\* what the first loop of next_generation pushes for one ancestor: the
\* children, then the halves of its partition once per child (every pass of
\* the partition loop uses the same seed)
AncestorDescendants(grid_attempt, settings) ==
    {children \o Repeat(halves, settings.num_children) :
        children \in [1 .. settings.num_children ->
                        produce_child(grid_attempt, settings)],
        halves \in PartitionHalves(grid_attempt, settings)}

RECURSIVE NextAncestors(_, _)
NextAncestors(ancestors, settings) ==
    IF ancestors = <<>> THEN {<<>>}
    ELSE {first \o rest :
            first \in AncestorDescendants(Head(ancestors), settings),
            rest \in NextAncestors(Tail(ancestors), settings)}

\* the second loop of next_generation: num_children filled grids of every
\* ancestor
RECURSIVE NextComplete(_, _)
NextComplete(ancestors, settings) ==
    IF ancestors = <<>> THEN {<<>>}
    ELSE {first \o rest :
            first \in [1 .. settings.num_children ->
                        fill_grid(Head(ancestors), settings)],
            rest \in NextComplete(Tail(ancestors), settings)}

\* pick_best_varied on the attempts made, unless making one of them panicked
PickGeneration(grid_attempts, num_to_pick) ==
    IF \E i \in 1 .. Len(grid_attempts) : grid_attempts[i].grid.panic
    THEN [attempts |-> <<>>, panic |-> TRUE]
    ELSE pick_best_varied(grid_attempts, num_to_pick)

\* the second half of next_generation; ancestors is the outcome of the
\* first pick_best_varied
NextGenerationComplete(gen, ancestors) ==
    IF ancestors.panic THEN {[gen EXCEPT !.panic = TRUE]}
    ELSE {[gen EXCEPT !.current_generation_ancestors = ancestors.attempts,
                      !.current_generation_complete = complete.attempts,
                      !.panic = complete.panic] :
          complete \in
            {PickGeneration(made \o gen.current_generation_complete,
                            gen.settings.num_per_generation) :
             made \in NextComplete(ancestors.attempts, gen.settings)}}

\* the generators next_generation can leave
next_generation(gen) ==
    UNION {NextGenerationComplete(gen, ancestors) :
           ancestors \in
            {PickGeneration(made \o gen.current_generation_ancestors,
                            gen.settings.num_per_generation) :
             made \in NextAncestors(gen.current_generation_ancestors,
                                    gen.settings)}}

RECURSIVE StringifyAttempts(_)
StringifyAttempts(grid_attempts) ==
    IF grid_attempts = <<>> THEN <<>>
    ELSE to_string(Head(grid_attempts).grid) \o <<"\n", "\n">>
         \o StringifyAttempts(Tail(grid_attempts))

stringified_output(gen) ==
    StringifyAttempts(gen.current_generation_ancestors
                      \o gen.current_generation_complete)

output_best(gen, num_to_output) ==
    [i \in 1 .. Min(num_to_output, Len(gen.current_generation_complete)) |->
        gen.current_generation_complete[i].grid]

\* the arguments of the info! lines of the loop of generate panic on an
\* empty population: get_average_scores, current_generation_complete[0],
\* average_move_counts and average_move_counts_ancestors
RoundLogPanics(gen) ==
    \/ gen.current_generation_complete = <<>>
    \/ gen.current_generation_ancestors = <<>>

(* The generator as a state machine: a generator is constructed from a     *)
(* seed word list and a settings map, then generate() runs its rounds.      *)

\* the settings explored: num-per-gen is at most MaxPerGeneration,
\* num-children at most MaxChildren, moves-between-scores at most MaxMoves,
\* max-rounds at most MaxMaxRounds and min-rounds at most MaxMinRounds
MaxPerGeneration == 2
MaxChildren == 2
MaxMoves == 2
MaxMaxRounds == 3
MaxMinRounds == 1

\* the seed word lists: no word, an empty line, one word, two words
SeedWordLists ==
    {<<>>, <<<<>>>>, <<<<"A", "B">>>>, <<<<"A", "B">>, <<"A", "B">>>>}

SettingsMaps ==
    {[key \in {"num-per-gen", "num-children", "moves-between-scores",
               "max-rounds", "min-rounds"} |->
        CASE key = "num-per-gen" -> num_per_generation
          [] key = "num-children" -> num_children
          [] key = "moves-between-scores" -> moves_between_scores
          [] key = "max-rounds" -> max_rounds
          [] key = "min-rounds" -> min_rounds] :
     num_per_generation \in 0 .. MaxPerGeneration,
     num_children \in 0 .. MaxChildren,
     moves_between_scores \in 1 .. MaxMoves,
     max_rounds \in 0 .. MaxMaxRounds,
     min_rounds \in 0 .. MaxMinRounds}

\* run holds the arguments of the constructor, whether the log level lets
\* the info! lines through, the locals of generate(), the value returned,
\* and two records of the past: the number of calls of next_generation and
\* whether the last round left the rendering of the population as it was
InitGen ==
    /\ run \in [pc : {"new"},
                words : SeedWordLists,
                settings_map : SettingsMaps,
                info : BOOLEAN,
                reached_convergence : {FALSE},
                last_generation_stringified : {<<>>},
                output : {<<>>},
                calls : {0},
                same_as_previous : {FALSE}]
    /\ generator = NoGenerator
    /\ pick = NoGenerator
    /\ call = NoCall
    /\ graph = EmptyGraph
    /\ gres = NoResult
    /\ grid = NoGrid
    /\ second_grid = NoGrid
    /\ prev_grid = NoGrid
    /\ last_op = [op |-> "none"]
    /\ ops = [place |-> 0, remove |-> 0]

NewFromSingletons ==
    /\ run.pc = "new"
    /\ \E gen \in new_from_singletons(run.words, run.settings_map, run.info) :
        /\ generator' = gen
        /\ run' = [run EXCEPT !.pc = IF gen.panic THEN "new_panicked"
                                     ELSE "constructed"]
    /\ UNCHANGED <<pick, call, graphVars, gridVars>>

\* generate() up to its loop
GenerateStart ==
    /\ run.pc = "constructed"
    /\ run' = [run EXCEPT !.pc = "loop",
                          !.reached_convergence = FALSE,
                          !.last_generation_stringified =
                                stringified_output(generator)]
    /\ UNCHANGED <<generator, pick, call, graphVars, gridVars>>

\* one pass of the loop of generate()
GenerateRound ==
    /\ run.pc = "loop"
    /\ ~run.reached_convergence
    /\ generator.round < generator.settings.max_rounds
    /\ \E gen \in next_generation(generator) :
        IF gen.panic \/ (run.info /\ RoundLogPanics(gen))
        THEN /\ generator' = [gen EXCEPT !.panic = TRUE]
             /\ run' = [run EXCEPT !.pc = "generate_panicked",
                                   !.calls = @ + 1]
        ELSE /\ generator' = [gen EXCEPT !.round = @ + 1]
             /\ run' = [run EXCEPT
                    !.reached_convergence =
                        IF gen.round > gen.settings.min_rounds
                        THEN stringified_output(gen)
                                = run.last_generation_stringified
                        ELSE @,
                    !.last_generation_stringified = stringified_output(gen),
                    !.same_as_previous =
                        (stringified_output(gen)
                            = run.last_generation_stringified),
                    !.calls = @ + 1]
    /\ UNCHANGED <<pick, call, graphVars, gridVars>>

\* generate() after its loop; the argument current_generation_complete[0]
\* of the last info! line panics on an empty population
GenerateReturn ==
    /\ run.pc = "loop"
    /\ ~(~run.reached_convergence
         /\ generator.round < generator.settings.max_rounds)
    /\ IF run.info /\ generator.current_generation_complete = <<>>
       THEN /\ generator' = [generator EXCEPT !.panic = TRUE]
            /\ run' = [run EXCEPT !.pc = "generate_panicked"]
       ELSE /\ run' = [run EXCEPT !.pc = "returned",
                    !.output = output_best(generator,
                                generator.settings.num_per_generation)]
            /\ UNCHANGED generator
    /\ UNCHANGED <<pick, call, graphVars, gridVars>>

NextGen ==
    \/ NewFromSingletons
    \/ GenerateStart
    \/ GenerateRound
    \/ GenerateReturn

SpecGen == InitGen /\ [][NextGen]_vars

(* The rounds of generate() on seed lists whose populations survive more   *)
(* than one round: two words that cross in one letter, and a word with a    *)
(* one-letter word, which Word::new_parsed accepts and which lies across a  *)
(* letter of the other word without adding a letter to the rendering.       *)

RoundWordLists ==
    {<<<<"A", "B">>, <<"B", "C">>>>,
     <<<<"A", "B">>, <<"A">>>>}

\* the settings maps with at least one grid kept, one child made and two
\* rounds allowed
RoundSettingsMaps ==
    {m \in SettingsMaps :
        /\ m["num-per-gen"] >= 1
        /\ m["num-children"] >= 1
        /\ m["max-rounds"] >= 2
        /\ m["min-rounds"] = 0}

InitRounds ==
    /\ run \in [pc : {"new"},
                words : RoundWordLists,
                settings_map : RoundSettingsMaps,
                info : {FALSE},
                reached_convergence : {FALSE},
                last_generation_stringified : {<<>>},
                output : {<<>>},
                calls : {0},
                same_as_previous : {FALSE}]
    /\ generator = NoGenerator
    /\ pick = NoGenerator
    /\ call = NoCall
    /\ graph = EmptyGraph
    /\ gres = NoResult
    /\ grid = NoGrid
    /\ second_grid = NoGrid
    /\ prev_grid = NoGrid
    /\ last_op = [op |-> "none"]
    /\ ops = [place |-> 0, remove |-> 0]

SpecRounds == InitRounds /\ [][NextGen]_vars

----------------------------------------------------------------------------
(* A single cell as a state machine: words are added to it and removed     *)
(* from it, and it is marked Empty or Black.                                *)

\* word ids written into the cell are 0 .. MaxCellWordId
MaxCellWordId == 1

CellWordIds == 0 .. MaxCellWordId

CellLetters == {"A", "B"}

\* call holds the cell, the cell as it was before the last operation, the
\* operation with its arguments, and the value add_word returned
InitCell ==
    /\ call = [op |-> "empty", cell |-> CellEmpty, before |-> CellEmpty,
               word_id |-> 0, letter |-> " ", direction |-> Across,
               success |-> TRUE]
    /\ generator = NoGenerator
    /\ run = NoGenerator
    /\ pick = NoGenerator
    /\ graph = EmptyGraph
    /\ gres = NoResult
    /\ grid = NoGrid
    /\ second_grid = NoGrid
    /\ prev_grid = NoGrid
    /\ last_op = [op |-> "none"]
    /\ ops = [place |-> 0, remove |-> 0]

CellAddWord ==
    /\ \E word_id \in CellWordIds, letter \in CellLetters,
          direction \in Directions :
        \E r \in {cell_add_word(call.cell, word_id, letter, direction)} :
            call' = [op |-> "add_word", cell |-> r.cell,
                     before |-> call.cell, word_id |-> word_id,
                     letter |-> letter, direction |-> direction,
                     success |-> r.success]
    /\ UNCHANGED <<generator, run, pick, graphVars, gridVars>>

CellRemoveWord ==
    /\ \E word_id \in CellWordIds :
        call' = [call EXCEPT !.op = "remove_word",
                             !.cell = cell_remove_word(call.cell, word_id),
                             !.before = call.cell,
                             !.word_id = word_id, !.success = TRUE]
    /\ UNCHANGED <<generator, run, pick, graphVars, gridVars>>

CellSetEmpty ==
    /\ call' = [call EXCEPT !.op = "set_empty",
                            !.cell = set_empty(call.cell),
                            !.before = call.cell, !.success = TRUE]
    /\ UNCHANGED <<generator, run, pick, graphVars, gridVars>>

CellSetBlack ==
    /\ call' = [call EXCEPT !.op = "set_black",
                            !.cell = set_black(call.cell),
                            !.before = call.cell, !.success = TRUE]
    /\ UNCHANGED <<generator, run, pick, graphVars, gridVars>>

NextCell ==
    \/ CellAddWord
    \/ CellRemoveWord
    \/ CellSetEmpty
    \/ CellSetBlack

SpecCell == InitCell /\ [][NextCell]_vars

CellUpdateWordId ==
    /\ \E old_word_id \in CellWordIds, new_word_id \in CellWordIds :
        call' = [call EXCEPT !.op = "update_word_id",
                             !.cell = cell_update_word_id(call.cell,
                                            old_word_id, new_word_id),
                             !.before = call.cell,
                             !.word_id = old_word_id, !.success = TRUE]
    /\ UNCHANGED <<generator, run, pick, graphVars, gridVars>>

\* the calls that give a cell its owners and take them away
NextCellOwners ==
    \/ CellAddWord
    \/ CellRemoveWord
    \/ CellUpdateWordId

SpecCellOwners == InitCell /\ [][NextCellOwners]_vars

----------------------------------------------------------------------------
(* Placements alone, with anchors further from the grid: words are placed   *)
(* by place_word_in_cell, whether or not they are placed already.           *)

\* anchors lie at most WideMargin cells outside the bounding box
WideMargin == 1

WideAnchorLocations(g) ==
    (Top(g) - WideMargin .. Bottom(g) + WideMargin)
        \X (Left(g) - WideMargin .. Right(g) + WideMargin)

PlaceWordInCellWide ==
    /\ ~grid.panic
    /\ ops.place < MaxPlaceOps
    /\ ops' = [ops EXCEPT !.place = @ + 1]
    /\ \E word_id \in WordIds,
          location \in WideAnchorLocations(grid),
          direction \in Directions :
        \E index_in_word \in 0 .. Len(WordList[word_id + 1]) - 1 :
            \E r \in {place_word_in_cell(grid, location, word_id,
                                         index_in_word, direction)} :
               /\ grid' = r.grid
               /\ last_op' = [op |-> "place_word_in_cell",
                              word_id |-> word_id,
                              start_location |->
                                  StartLocation(location, index_in_word,
                                                direction),
                              direction |-> direction, err |-> r.err]
    /\ prev_grid' = grid
    /\ UNCHANGED <<second_grid, graphVars, genVars>>

SpecPlace == InitGrid /\ [][PlaceWordInCellWide]_vars

----------------------------------------------------------------------------
(* assess_compatability on small rasters: the rasters and the offset are    *)
(* drawn at the start, and the one step applies the function.               *)

MaxRasterValue == 3
MaxShift == 1

\* 0 is an empty cell, 1 a black cell, 2 and 3 the letters A and B
RasterValues == EmptyValue .. MaxRasterValue

\* the shapes of the first and of the second raster: rows, columns
FirstShapes == {<<2, 2>>}
SecondShapes == {<<1, 2>>, <<2, 1>>}

Rasters(shapes) ==
    UNION {{[matrix |-> a, row_shift |-> 0, col_shift |-> 0,
             nrows |-> shape[1], ncols |-> shape[2]] :
                a \in [Indices(shape[1], shape[2]) -> RasterValues]} :
           shape \in shapes}

Shifts == (- MaxShift) .. MaxShift

InitMatrix ==
    /\ \E m \in Rasters(FirstShapes), other \in Rasters(SecondShapes),
          other_row_shift \in Shifts, other_col_shift \in Shifts :
        call = [op |-> "rasters", m |-> m, other |-> other,
                other_row_shift |-> other_row_shift,
                other_col_shift |-> other_col_shift,
                compatible |-> FALSE, num_overlaps |-> 0]
    /\ generator = NoGenerator
    /\ run = NoGenerator
    /\ pick = NoGenerator
    /\ graph = EmptyGraph
    /\ gres = NoResult
    /\ grid = NoGrid
    /\ second_grid = NoGrid
    /\ prev_grid = NoGrid
    /\ last_op = [op |-> "none"]
    /\ ops = [place |-> 0, remove |-> 0]

AssessCompatability ==
    /\ call.op = "rasters"
    /\ \E r \in {assess_compatability(call.m, call.other,
                        call.other_row_shift, call.other_col_shift)} :
        call' = [call EXCEPT !.op = "assess_compatability",
                             !.compatible = r.compatible,
                             !.num_overlaps = r.num_overlaps]
    /\ UNCHANGED <<generator, run, pick, graphVars, gridVars>>

SpecMatrix == InitMatrix /\ [][AssessCompatability]_vars

\* the opposite setup of test_matrix_compatible: the two rasters change
\* places and the offset is negated
CompatibleWithMatrixOpposite ==
    /\ call.op = "assess_compatability"
    /\ gres.op = "none"
    /\ gres' = [op |-> "compatible_with_matrix",
                compatible |-> compatible_with_matrix(call.other, call.m,
                                    - call.other_row_shift,
                                    - call.other_col_shift)]
    /\ UNCHANGED <<graph, generator, run, pick, call, gridVars>>

NextOpposite == AssessCompatability \/ CompatibleWithMatrixOpposite

SpecOpposite == InitMatrix /\ [][NextOpposite]_vars

----------------------------------------------------------------------------
(* find_best_probably_compatible_configuration on small rasters *)

InitBest ==
    /\ \E m \in Rasters(FirstShapes), other \in Rasters(SecondShapes) :
        call = [op |-> "rasters", m |-> m, other |-> other,
                configuration |-> {}]
    /\ generator = NoGenerator
    /\ run = NoGenerator
    /\ pick = NoGenerator
    /\ graph = EmptyGraph
    /\ gres = NoResult
    /\ grid = NoGrid
    /\ second_grid = NoGrid
    /\ prev_grid = NoGrid
    /\ last_op = [op |-> "none"]
    /\ ops = [place |-> 0, remove |-> 0]

FindBestProbablyCompatibleConfiguration ==
    /\ call.op = "rasters"
    /\ call' = [call EXCEPT
                    !.op = "find_best_probably_compatible_configuration",
                    !.configuration =
                        find_best_probably_compatible_configuration(
                            call.m, call.other)]
    /\ UNCHANGED <<generator, run, pick, graphVars, gridVars>>

SpecBest == InitBest /\ [][FindBestProbablyCompatibleConfiguration]_vars

----------------------------------------------------------------------------
(* Merging as a state machine: a grid and another grid over the same word   *)
(* list are drawn at the start, and one step merges the other grid into    *)
(* the first, at a given shift or at the shift try_merge_with_grid finds.  *)

MaxMergeShift == 2

MergeShifts == (- MaxMergeShift) .. MaxMergeShift

\* the word list of the merged grids: words 0 and 1 share the letter A,
\* words 1 and 2 the letter C, words 0 and 2 no letter
MergeWordList == <<<<"A", "B">>, <<"A", "C">>, <<"D", "C">>>>

MergeWordMap ==
    [id \in 0 .. Len(MergeWordList) - 1 |->
        new_unplaced(MergeWordList[id + 1], RequiredDirections[id + 1])]

MergeSingletons(word_ids) ==
    {new_from_wordmap_single_placed(word_id, direction, MergeWordMap) :
        word_id \in word_ids, direction \in Directions}

\* a grid as it is, and with its black cells filled
WithBlackCells(grids) ==
    {g \in grids \cup {fill_black_cells(g) : g \in grids} : ~g.panic}

\* the grids merged into: word 0 alone, and word 1 down through the A of
\* word 0
MergeSelfGrids ==
    WithBlackCells(MergeSingletons({0})
        \cup {fit_to_size(place_word_in_cell(
                    new_from_wordmap_single_placed(0, Across, MergeWordMap),
                    <<0, 0>>, 1, 0, Down).grid)})

\* the grids merged: word 1 or word 2 alone, and word 2 down through the C
\* of word 1
MergeOtherGrids ==
    WithBlackCells(MergeSingletons({1, 2})
        \cup {fit_to_size(place_word_in_cell(
                    new_from_wordmap_single_placed(1, Across, MergeWordMap),
                    <<0, 1>>, 2, 1, Down).grid)})

InitMerge ==
    /\ grid \in MergeSelfGrids
    /\ second_grid \in MergeOtherGrids
    /\ prev_grid = grid
    /\ last_op = [op |-> "grids"]
    /\ ops = [place |-> 0, remove |-> 0]
    /\ graph = EmptyGraph
    /\ gres = NoResult
    /\ generator = NoGenerator
    /\ run = NoGenerator
    /\ pick = NoGenerator
    /\ call = NoCall

MergeWithGrid ==
    /\ last_op.op = "grids"
    /\ \E row_shift \in MergeShifts, col_shift \in MergeShifts :
        \E order \in Shuffles(sorted_vec_from_set(PlacedWordIds(second_grid))) :
            /\ grid' = merge_with_grid(grid, second_grid, row_shift,
                                       col_shift, order)
            /\ last_op' = [op |-> "merge_with_grid", row_shift |-> row_shift,
                           col_shift |-> col_shift, order |-> order]
    /\ prev_grid' = grid
    /\ UNCHANGED <<second_grid, ops, graphVars, genVars>>

TryMergeWithGrid ==
    /\ last_op.op = "grids"
    /\ \E order \in Shuffles(sorted_vec_from_set(PlacedWordIds(second_grid))) :
        \E r \in {try_merge_with_grid(grid, second_grid, order)} :
            /\ grid' = r.grid
            /\ last_op' = [op |-> "try_merge_with_grid",
                           success |-> r.success, order |-> order]
    /\ prev_grid' = grid
    /\ UNCHANGED <<second_grid, ops, graphVars, genVars>>

NextMerge ==
    \/ MergeWithGrid
    \/ TryMergeWithGrid

SpecMerge == InitMerge /\ [][NextMerge]_vars

----------------------------------------------------------------------------
(* Random placement as a state machine: a singleton grid over one of the    *)
(* two word lists, then words are placed at random and unplaced.           *)

RandomStartGrids ==
    {g \in SingletonGrids(WordIds) \cup MergeSingletons(WordIds) : ~g.panic}

InitRandom ==
    /\ grid \in RandomStartGrids
    /\ second_grid = NoGrid
    /\ prev_grid = grid
    /\ last_op = [op |-> "new_from_wordmap_single_placed"]
    /\ ops = [place |-> 0, remove |-> 0]
    /\ graph = EmptyGraph
    /\ gres = NoResult
    /\ generator = NoGenerator
    /\ run = NoGenerator
    /\ pick = NoGenerator
    /\ call = NoCall

PlaceRandomWord ==
    /\ ~grid.panic
    /\ \E r \in place_random_word(grid) :
        /\ grid' = r.grid
        /\ last_op' = [op |-> "place_random_word", success |-> r.success]
    /\ prev_grid' = grid
    /\ UNCHANGED <<second_grid, ops, graphVars, genVars>>

NextRandom ==
    \/ PlaceRandomWord
    \/ UnplaceWord

SpecRandom == InitRandom /\ [][NextRandom]_vars

(* fill_grid step by step, on a grid reached by random placements and one   *)
(* removal: one step per turn of its while loop.  The grid of the copied    *)
(* attempt is the variable grid; the record of the call counts the calls of *)
(* place_random_word in moves.                                              *)

\* the turns of the while loop are counted up to MaxFillMoves
MaxFillMoves == 6

FillGridCall ==
    /\ call.op = "none"
    /\ ~grid.panic
    /\ call' = [op |-> "fill_grid", pc |-> "loop", moves |-> 0,
                start |-> grid]
    /\ UNCHANGED <<generator, run, pick, graphVars, gridVars>>

\* one turn: place_random_word with the seed of the turn
FillGridTurn ==
    /\ call.op = "fill_grid"
    /\ call.pc = "loop"
    /\ call.moves < MaxFillMoves
    /\ \E r \in place_random_word(grid) :
        /\ grid' = r.grid
        /\ call' = [call EXCEPT
                        !.moves = @ + 1,
                        !.pc = IF r.grid.panic THEN "panic"
                               ELSE IF r.success THEN "loop" ELSE "filled"]
    /\ UNCHANGED <<generator, run, pick, graphVars, second_grid, prev_grid,
                   last_op, ops>>

\* update_score and the return of the copied attempt
FillGridReturn ==
    /\ call.op = "fill_grid"
    /\ call.pc = "filled"
    /\ call' = [call EXCEPT
                    !.pc = IF CrosswordGridAttemptNew(grid, DefaultSettings)
                                .grid.panic
                           THEN "panic" ELSE "returned"]
    /\ UNCHANGED <<generator, run, pick, graphVars, gridVars>>

BeforeFillGrid ==
    /\ call.op = "none"
    /\ NextRandom

NextFill ==
    \/ BeforeFillGrid
    \/ FillGridCall
    \/ FillGridTurn
    \/ FillGridReturn

SpecFill == InitRandom /\ [][NextFill]_vars

\* the turn of the loop can be taken; place_random_word has an outcome on
\* every grid
FillGridTurnEnabled ==
    call.op = "fill_grid" /\ call.pc = "loop" /\ call.moves < MaxFillMoves

FillGridReturnEnabled == call.op = "fill_grid" /\ call.pc = "filled"

\* fill_grid is sequential code: a turn of its loop that can be taken is
\* taken, and so is its return.  This is weak fairness of the two steps,
\* WF_vars(FillGridTurn) and WF_vars(FillGridReturn), with ENABLED written
\* as the guard of the step.
SpecFillFair ==
    /\ SpecFill
    /\ ([]<>~FillGridTurnEnabled \/ []<><<FillGridTurn>>_vars)
    /\ ([]<>~FillGridReturnEnabled \/ []<><<FillGridReturn>>_vars)

----------------------------------------------------------------------------
(* grid/builder.rs: CrosswordGridBuilder.  The builder reads the text one   *)
(* character at a time; each letter extends or starts one across word and   *)
(* one down word.  Word::new(text, location, true) of the builder is the    *)
(* word placed across, with false the word placed down.                     *)

\* HashMap::insert
MapInsert(map, key, value) ==
    [k \in DOMAIN map \cup {key} |-> IF k = key THEN value ELSE map[k]]

WordNew(string, start_location, direction) ==
    [word_text |-> string,
     placement |-> {WordPlacementNew(string, start_location, direction)},
     required_direction |-> {}]

\* Word::extend_word: the letter is pushed and the end of a placed word moves
\* one cell on
extend_word(word, character) ==
    [word EXCEPT
        !.word_text = Append(@, character),
        !.placement =
            {[p EXCEPT !.end_location =
                    relative_location_directed(p.end_location, 1, p.direction)]
             : p \in @}]

CrosswordGridBuilderNew ==
    [cell_map |-> <<>>, word_map |-> <<>>,
     current_across_word_id |-> {}, current_down_word_ids |-> <<>>,
     row |-> 0, col |-> 0, max_col |-> 0, index |-> 0, word_index |-> 0,
     last_location |-> <<0, 0>>, panic |-> FALSE]

\* the first row enters its columns into current_down_word_ids
BuilderFirstRow(b) ==
    IF b.row = 0
    THEN [b EXCEPT !.current_down_word_ids = MapInsert(@, b.col, {})]
    ELSE b

\* a space ends the words that run through the cell
BuilderSpace(b, location) ==
    [b EXCEPT !.current_across_word_id = {},
              !.current_down_word_ids = MapInsert(@, b.col, {}),
              !.cell_map = MapInsert(@, location, CellEmpty)]

\* the letter extends the current across word or starts a new one
BuilderAcross(b, c, location) ==
    IF b.current_across_word_id # {}
    THEN [b EXCEPT !.word_map =
            [@ EXCEPT ![CHOOSE id \in b.current_across_word_id : TRUE] =
                extend_word(@, c)]]
    ELSE [b EXCEPT !.word_map =
                        MapInsert(@, b.word_index, WordNew(<<c>>, location, Across)),
                   !.current_across_word_id = {b.word_index},
                   !.word_index = @ + 1]

\* the letter extends the down word of its column or starts a new one; the
\* lookup of a column that the first row did not have panics
BuilderDown(b, c, location) ==
    IF b.col \notin DOMAIN b.current_down_word_ids
    THEN [b EXCEPT !.panic = TRUE]
    ELSE IF b.current_down_word_ids[b.col] # {}
    THEN [b EXCEPT !.word_map =
            [@ EXCEPT ![CHOOSE id \in b.current_down_word_ids[b.col] : TRUE] =
                extend_word(@, c)]]
    ELSE [b EXCEPT !.word_map =
                        MapInsert(@, b.word_index, WordNew(<<c>>, location, Down)),
                   !.current_down_word_ids = MapInsert(@, b.col, {b.word_index}),
                   !.word_index = @ + 1]

BuilderCell(b, c, location) ==
    IF b.panic THEN b
    ELSE [b EXCEPT !.cell_map =
            MapInsert(@, location,
                      CellNew(c, b.current_across_word_id,
                              b.current_down_word_ids[b.col]))]

BuilderLetter(b, c, location) ==
    BuilderCell(BuilderDown(BuilderAcross(b, c, location), c, location),
                c, location)

BuilderAdvance(b, location) ==
    IF b.panic THEN b
    ELSE [b EXCEPT !.last_location = location,
                   !.col = @ + 1, !.index = @ + 1]

\* one pass of the loop of from_string over the characters
BuilderStep(b, c) ==
    IF b.panic THEN b
    ELSE IF c = "\n"
    THEN [b EXCEPT !.row = @ + 1, !.max_col = Max(@, b.col), !.col = 0]
    ELSE IF c = " "
    THEN BuilderAdvance(BuilderSpace(BuilderFirstRow(b), <<b.row, b.col>>),
                        <<b.row, b.col>>)
    ELSE BuilderAdvance(BuilderLetter(BuilderFirstRow(b), c, <<b.row, b.col>>),
                        <<b.row, b.col>>)

RECURSIVE BuilderLoop(_, _)
BuilderLoop(b, characters) ==
    IF characters = <<>> THEN b
    ELSE BuilderLoop(BuilderStep(b, Head(characters)), Tail(characters))

\* the remove_word of the grid that the builder calls: the word leaves the
\* word map and every cell
remove_word(g, word_id) ==
    [g EXCEPT
        !.word_map = [id \in DOMAIN @ \ {word_id} |-> @[id]],
        !.cell_map = [l \in DOMAIN @ |-> cell_remove_word(@[l], word_id)]]

\* the words of one letter are removed, in the order the hash map yields
\* them; the removals do not depend on one another
RECURSIVE RemoveSingletonWords(_, _)
RemoveSingletonWords(g, singleton_word_ids) ==
    IF singleton_word_ids = <<>> THEN g
    ELSE RemoveSingletonWords(remove_word(g, Head(singleton_word_ids)),
                              Tail(singleton_word_ids))

BuilderGrid(b) ==
    [cell_map |-> b.cell_map, word_map |-> b.word_map,
     top_left_cell_index |-> <<0, 0>>,
     bottom_right_cell_index |-> b.last_location,
     panic |-> b.panic]

BuilderFinish(g) ==
    IF g.panic THEN g
    ELSE fit_to_size(RemoveSingletonWords(g,
            sorted_vec_from_set({id \in DOMAIN g.word_map :
                                    Len(g.word_map[id].word_text) = 1})))

from_string(string) ==
    BuilderFinish(BuilderGrid(BuilderLoop(CrosswordGridBuilderNew, string)))

\* The grids of the random placement and of the merge, words placed into
\* them and removed from them, rendered and read back by the builder.
\* a word of one letter and a word of two letters
ShortWordList == <<<<"A">>, <<"A", "B">>>>

ShortWordMap ==
    [id \in 0 .. Len(ShortWordList) - 1 |->
        new_unplaced(ShortWordList[id + 1], {})]

ShortSingletons ==
    {new_from_wordmap_single_placed(word_id, direction, ShortWordMap) :
        word_id \in DOMAIN ShortWordMap, direction \in Directions}

BuilderStartGrids ==
    RandomStartGrids \cup MergeSelfGrids \cup MergeOtherGrids
        \cup ShortSingletons

InitBuilder ==
    /\ grid \in BuilderStartGrids
    /\ second_grid = NoGrid
    /\ prev_grid = grid
    /\ last_op = [op |-> "new_from_wordmap_single_placed"]
    /\ ops = [place |-> 0, remove |-> 0]
    /\ graph = EmptyGraph
    /\ gres = NoResult
    /\ generator = NoGenerator
    /\ run = NoGenerator
    /\ pick = NoGenerator
    /\ call = NoCall

\* CrosswordGridBuilder::new().from_string(&grid.to_string())
FromString ==
    /\ ~grid.panic
    /\ second_grid' = from_string(to_string(grid))
    /\ last_op' = [op |-> "from_string", string |-> to_string(grid)]
    /\ UNCHANGED <<grid, prev_grid, ops, graphVars, genVars>>

NextBuilder ==
    \/ PlaceRandomWord
    \/ UnplaceWord
    \/ FromString

SpecBuilder == InitBuilder /\ [][NextBuilder]_vars

----------------------------------------------------------------------------
(* random_singleton_grids on lists of seed lines: answers in capital and    *)
(* small letters, with a hyphen, empty, with a digit, and lines that ask    *)
(* for a direction.                                                         *)

MaxSeedLines == 2

SeedLines ==
    {<<"A", "B">>,
     <<"b", "a">>,
     <<>>,
     <<"A", "1">>,
     <<"A", "-", "B", ":", ":", "x">>,
     <<"A", "B", ":", ":", "x", ":", ":", "D", "O", "W", "N">>,
     <<"B", "A", ":", ":", "x", ":", ":", "a", "c", "r", "o", "s", "s">>,
     <<"A", "B", ":", ":", "x", ":", ":", "u", "p">>}

SeedLineLists == UNION {[1 .. n -> SeedLines] : n \in 0 .. MaxSeedLines}

InitSingletons ==
    /\ call \in {[op |-> "random_singleton_grids", pc |-> "called",
                  words |-> words, singletons |-> <<>>] :
                 words \in SeedLineLists}
    /\ generator = NoGenerator
    /\ run = NoGenerator
    /\ pick = NoGenerator
    /\ graph = EmptyGraph
    /\ gres = NoResult
    /\ grid = NoGrid
    /\ second_grid = NoGrid
    /\ prev_grid = NoGrid
    /\ last_op = [op |-> "none"]
    /\ ops = [place |-> 0, remove |-> 0]

RandomSingletonGrids ==
    /\ call.pc = "called"
    /\ \E singletons \in random_singleton_grids(call.words) :
        call' = [call EXCEPT !.pc = "returned", !.singletons = singletons]
    /\ UNCHANGED <<generator, run, pick, graphVars, gridVars>>

NextSingletons == RandomSingletonGrids

SpecSingletons == InitSingletons /\ [][NextSingletons]_vars

----------------------------------------------------------------------------
(* grid/mod.rs: add_unplaced_word and delete_word, on grids whose word ids  *)
(* have gaps: the singleton grids of seed lines some of which do not parse, *)
(* and grids from which words were deleted.                                 *)

\* the while loop of find_lowest_unused_word_id
RECURSIVE LowestUnusedFrom(_, _)
LowestUnusedFrom(g, word_id) ==
    IF word_id \in DOMAIN g.word_map THEN LowestUnusedFrom(g, word_id + 1)
    ELSE word_id

find_lowest_unused_word_id_after_last(g) ==
    IF DOMAIN g.word_map = {} THEN 0
    ELSE 1 + CHOOSE id \in DOMAIN g.word_map :
                \A other \in DOMAIN g.word_map : other <= id

find_lowest_unused_word_id(g) == LowestUnusedFrom(g, 0)

add_unplaced_word_at_id(g, word_text, word_id, required_direction) ==
    [g EXCEPT !.word_map =
        MapInsert(@, word_id, new_unplaced(word_text, required_direction))]

\* the grid with the word added, and the id returned
add_unplaced_word(g, word_text, required_direction) ==
    [grid |-> add_unplaced_word_at_id(g, word_text,
                    find_lowest_unused_word_id(g), required_direction),
     word_id |-> find_lowest_unused_word_id(g)]

DeleteFromWordMap(g, word_id) ==
    [g EXCEPT !.word_map = [id \in DOMAIN @ \ {word_id} |-> @[id]]]

delete_word(g, word_id) == DeleteFromWordMap(unplace_word(g, word_id), word_id)

MaxWords == 3

\* the answers added
AddedWordTexts == {<<"A", "B">>, <<"B">>}

InitAddWord ==
    /\ grid \in {g \in UNION {{singletons[i] : i \in DOMAIN singletons} :
                    singletons \in UNION {random_singleton_grids(words) :
                                            words \in SeedLineLists}} :
                 ~g.panic}
    /\ second_grid = NoGrid
    /\ prev_grid = grid
    /\ last_op = [op |-> "new_from_wordmap_single_placed"]
    /\ ops = [place |-> 0, remove |-> 0]
    /\ graph = EmptyGraph
    /\ gres = NoResult
    /\ generator = NoGenerator
    /\ run = NoGenerator
    /\ pick = NoGenerator
    /\ call = NoCall

AddUnplacedWord ==
    /\ ~grid.panic
    /\ Cardinality(DOMAIN grid.word_map) < MaxWords
    /\ \E word_text \in AddedWordTexts, required_direction \in {{}, {Down}} :
        \E r \in {add_unplaced_word(grid, word_text, required_direction)} :
            /\ grid' = r.grid
            /\ last_op' = [op |-> "add_unplaced_word", word_id |-> r.word_id,
                           word_text |-> word_text,
                           required_direction |-> required_direction]
    /\ prev_grid' = grid
    /\ UNCHANGED <<second_grid, ops, graphVars, genVars>>

DeleteWord ==
    /\ ~grid.panic
    /\ ops.remove < MaxRemoveOps
    /\ ops' = [ops EXCEPT !.remove = @ + 1]
    /\ \E word_id \in DOMAIN grid.word_map :
        /\ grid' = delete_word(grid, word_id)
        /\ last_op' = [op |-> "delete_word", word_id |-> word_id]
    /\ prev_grid' = grid
    /\ UNCHANGED <<second_grid, graphVars, genVars>>

NextAddWord ==
    \/ AddUnplacedWord
    \/ DeleteWord
    \/ PlaceRandomWord

SpecAddWord == InitAddWord /\ [][NextAddWord]_vars

----------------------------------------------------------------------------
(* Properties of the graph *)

\* the nodes of node_set reachable from the nodes of reached along edges
\* whose two ends are both in node_set
RECURSIVE ReachWithin(_, _, _)
ReachWithin(g, node_set, reached) ==
    LET more == reached \cup
                {m \in node_set : \E x \in reached :
                                     m \in get_node(g, x).connected_nodes}
    IN IF more = reached THEN reached ELSE ReachWithin(g, node_set, more)

ConnectedWithin(g, node_set) ==
    \A x \in node_set : ReachWithin(g, node_set, {x}) = node_set

AllNodes(g) == DOMAIN g.node_map

PartitionAsked ==
    /\ gres.op = "partition_nodes"
    /\ gres.first_node # gres.second_node
    /\ HasNode(graph, gres.first_node)
    /\ HasNode(graph, gres.second_node)
    /\ is_connected(graph)

\* C4: for a connected graph and two distinct nodes of it, partition_nodes
\* returns two lists of nodes that share no node, that together hold every
\* node of the graph, the first holding first_node and the second holding
\* second_node, and each connected through edges between its own nodes only.
C4_PartitionNodes ==
    PartitionAsked =>
        LET first  == SeqToSet(gres.res.first)
            second == SeqToSet(gres.res.second)
        IN /\ gres.res.err = "Ok"
           /\ first \cap second = {}
           /\ first \cup second = AllNodes(graph)
           /\ gres.first_node \in first
           /\ gres.second_node \in second
           /\ ConnectedWithin(graph, first)
           /\ ConnectedWithin(graph, second)

\* a partition of a connected graph of four nodes in which both sides get
\* more than one node
C4_Witness ==
    /\ PartitionAsked
    /\ count_nodes(graph) = 4
    /\ count_edges(graph) = 3
    /\ Len(gres.res.first) = 2
    /\ Len(gres.res.second) = 2

----------------------------------------------------------------------------
(* Properties of the grid *)

LastPlacement ==
    last_op.op \in {"place_word_in_cell", "try_place_word_in_cell"}

\* the last placement returned an Err
PlacementFailed == LastPlacement /\ last_op.err \notin {"Ok", "Panic"}

\* the last placement returned Ok(())
PlacementSucceeded == LastPlacement /\ last_op.err = "Ok"

GraphConnected(gr) == ConnectedWithin(gr, AllNodes(gr))

\* the placed words of g form a single connected component
PlacedWordsConnected(g) == GraphConnected(to_graph(g))

\* a grid that passes check_valid and has no unlinked adjacent letters
ValidGrid(g) == ~g.panic /\ check_valid(g) /\ AdjacentLettersLinked(g)

\* C1: whenever place_word_in_cell or try_place_word_in_cell returns an
\* error, whatever the reason and wherever the anchor, the rendering of the
\* grid is the one it had before the call.
C1_FailedPlacementKeepsRendering ==
    PlacementFailed => to_string(grid) = to_string(prev_grid)

\* C2: starting from a valid grid, after any sequence of mutations that
\* return normally the placed words form a single connected component.
C2_PlacedWordsStayConnected ==
    ~grid.panic => PlacedWordsConnected(grid)

\* C3: a placement that puts a letter orthogonally next to a letter of
\* another word, without a word shared in the joining direction, is
\* rejected: after every successful placement on a grid whose adjacent
\* letters are linked, any two adjacent letter cells share a word in that
\* direction.
C3_PlacementKeepsAdjacentLettersLinked ==
    (PlacementSucceeded /\ AdjacentLettersLinked(prev_grid))
        => AdjacentLettersLinked(grid)

SamePlacements(g, before) ==
    \A id \in PlacedWordIds(g) :
        get_location(g.word_map[id]) = get_location(before.word_map[id])

\* C10: for every valid grid with at least two placed words and every seed,
\* random_partition completes without a failed assertion, leaves self and
\* the returned grid with at least one placed word each, their placed words
\* disjoint and together those of the original, each word where it was, and
\* each grid connected.
C10_RandomPartitionSplits ==
    (/\ last_op.op = "random_partition"
     /\ ValidGrid(prev_grid)
     /\ count_placed_words(prev_grid) >= 2)
    => /\ last_op.err = "Ok"
       /\ PlacedWordIds(grid) # {}
       /\ PlacedWordIds(second_grid) # {}
       /\ PlacedWordIds(grid) \cap PlacedWordIds(second_grid) = {}
       /\ PlacedWordIds(grid) \cup PlacedWordIds(second_grid)
            = PlacedWordIds(prev_grid)
       /\ SamePlacements(grid, prev_grid)
       /\ SamePlacements(second_grid, prev_grid)
       /\ PlacedWordsConnected(grid)
       /\ PlacedWordsConnected(second_grid)

----------------------------------------------------------------------------
(* Properties of pick_best_varied *)

Renderings(attempts) ==
    {to_string(attempts[i].grid) : i \in 1 .. Len(attempts)}

PairwiseDistinct(attempts) ==
    \A i, j \in 1 .. Len(attempts) :
        i # j => to_string(attempts[i].grid) # to_string(attempts[j].grid)

\* C8: pick_best_varied(candidates, n) returns normally, and the attempts it
\* returns have pairwise distinct renderings: n of them when the candidates
\* have at least n distinct renderings, all the distinct ones when they
\* have fewer
C8_PickBestVariedReturnsDistinct ==
    pick.pc \notin {"none", "call"} =>
        /\ pick.pc = "returned"
        /\ PairwiseDistinct(pick.result)
        /\ Len(pick.result) =
             Min(pick.num_to_pick,
                 Cardinality(Renderings(pick.grid_attempts)))

----------------------------------------------------------------------------
(* Properties of the generator *)

GenerateRunning == run.pc \in {"loop", "returned", "generate_panicked"}

\* the condition of the while loop of generate(): a further round is run
FurtherRound ==
    /\ run.pc = "loop"
    /\ ~run.reached_convergence
    /\ generator.round < generator.settings.max_rounds

\* C6: generate() always returns: it never panics, it calls next_generation
\* at most max_rounds times, and when it stops because of convergence at
\* least min(min_rounds, max_rounds) rounds have been run
C6_GenerateAlwaysReturns ==
    GenerateRunning =>
        /\ run.pc # "generate_panicked"
        /\ run.calls <= generator.settings.max_rounds
        /\ run.reached_convergence =>
                run.calls >= Min(generator.settings.min_rounds,
                                 generator.settings.max_rounds)

\* C7: once a round has ended with at least min_rounds rounds run and with
\* the rendering of the population identical to the rendering after the
\* round before, generate() runs no further round
C7_ConvergenceTestedAfterMinRounds ==
    (/\ run.pc = "loop"
     /\ run.calls >= 1
     /\ run.calls >= generator.settings.min_rounds
     /\ run.same_as_previous)
        => ~FurtherRound

\* C9: a generator constructed from an empty or a single-word seed list is
\* constructed and runs generate() without panicking, and generate()
\* returns a result
C9_TrivialSeedListsDegrade ==
    Len(run.words) <= 1 =>
        run.pc \notin {"new_panicked", "generate_panicked"}

----------------------------------------------------------------------------
(* Properties of a cell *)

\* what Cell::add_word must refuse: a Black cell, a cell holding another
\* letter, a cell owned in the same direction by another word
AddWordMustFail(cell, word_id, letter, direction) ==
    \/ is_black(cell)
    \/ contains_letter(cell) /\ to_char(cell) # letter
    \/ /\ cell_get_word_id(cell, direction) # {}
       /\ cell_get_word_id(cell, direction) # {word_id}

\* C11: Cell::add_word returns false and leaves the cell as it was when the
\* cell is Black, holds a different letter, or has a different owner in the
\* same direction; otherwise it returns true, the cell holds the letter, the
\* word owns it in that direction, and the owner in the other direction is
\* the one it had.
C11_AddWordToCell ==
    call.op = "add_word" =>
        IF AddWordMustFail(call.before, call.word_id, call.letter,
                           call.direction)
        THEN ~call.success /\ call.cell = call.before
        ELSE /\ call.success
             /\ contains_letter(call.cell)
             /\ to_char(call.cell) = call.letter
             /\ cell_get_word_id(call.cell, call.direction) = {call.word_id}
             /\ cell_get_word_id(call.cell, rotate(call.direction))
                    = cell_get_word_id(call.before, rotate(call.direction))

\* a word is added across a cell another word already owns in the other
\* direction
C11_Witness ==
    /\ call.op = "add_word"
    /\ call.success
    /\ contains_letter(call.before)
    /\ is_intersection(call.cell)
    /\ ~is_intersection(call.before)

----------------------------------------------------------------------------
(* Properties of place_word_in_cell and of its errors *)

\* a letter lies in the cell before the start or in the cell after the end
\* of a word of the given length laid from start_location
EndCellsHoldLetter(g, length, start_location, direction) ==
    \E l \in {relative_location_directed(start_location, -1, direction),
              relative_location_directed(start_location, length, direction)} :
        HasCell(g, l) /\ contains_letter(g.cell_map[l])

PlaceWordInCellCalled ==
    last_op.op = "place_word_in_cell" /\ HasWord(prev_grid, last_op.word_id)

BlockedPlacement ==
    /\ PlaceWordInCellCalled
    /\ EndCellsHoldLetter(prev_grid,
            Len(prev_grid.word_map[last_op.word_id].word_text),
            last_op.start_location, last_op.direction)

\* two neighbouring cells along a direction that two different words own
\* in that direction
TouchingCells(g) ==
    {<<l, direction>> \in (DOMAIN g.cell_map) \X Directions :
        LET n == relative_location_directed(l, 1, direction)
        IN /\ HasCell(g, n)
           /\ cell_get_word_id(g.cell_map[l], direction) # {}
           /\ cell_get_word_id(g.cell_map[n], direction) # {}
           /\ cell_get_word_id(g.cell_map[l], direction)
                # cell_get_word_id(g.cell_map[n], direction)}

\* two placed words of one direction, the second starting in the cell after
\* the end of the first
TouchingWords(g) ==
    {<<a, b>> \in PlacedWordIds(g) \X PlacedWordIds(g) :
        /\ a # b
        /\ \E p \in get_location(g.word_map[a]),
              q \in get_location(g.word_map[b]) :
                /\ p.direction = q.direction
                /\ q.start_location
                     = relative_location_directed(p.end_location, 1,
                                                  p.direction)}

\* C12: place_word_in_cell returns the NonEmptyWordBoundary error whenever
\* the cell before the first letter or the cell after the last letter of the
\* word holds a letter, and no two words of the same direction ever lie end
\* to end in neighbouring cells.
C12_EndCellsMustBeFree ==
    /\ BlockedPlacement => last_op.err = "NonEmptyWordBoundary"
    /\ TouchingCells(grid) = {}
    /\ TouchingWords(grid) = {}

\* the calls of the last operation that name a word placed already, or a
\* direction the word does not allow
PlacedWordNamed ==
    /\ last_op.op \in {"place_word_in_cell", "try_place_word_in_cell"}
    /\ HasWord(prev_grid, last_op.word_id)
    /\ is_placed(prev_grid.word_map[last_op.word_id])

WrongDirectionNamed ==
    /\ last_op.op \in {"place_word_in_cell", "try_place_word_in_cell"}
    /\ HasWord(prev_grid, last_op.word_id)
    /\ ~is_placed(prev_grid.word_map[last_op.word_id])
    /\ ~allowed_in_direction(prev_grid.word_map[last_op.word_id],
                             last_op.direction)

\* C13: place_word_in_cell called for a word that is placed already returns
\* the WordAlreadyPlaced error and changes neither the placement recorded
\* for that word nor the content of any cell.
C13_PlacedWordIsRefused ==
    (PlacedWordNamed /\ last_op.op = "place_word_in_cell") =>
        /\ last_op.err = "WordAlreadyPlaced"
        /\ grid.word_map[last_op.word_id]
             = prev_grid.word_map[last_op.word_id]
        /\ grid.cell_map = prev_grid.cell_map

\* C14: place_word_in_cell called with a direction other than the one the
\* word requires returns the InvalidWordDirection error, does not panic,
\* and changes no cell and no placement.
C14_WrongDirectionIsRefused ==
    (WrongDirectionNamed /\ last_op.op = "place_word_in_cell") =>
        /\ last_op.err = "InvalidWordDirection"
        /\ ~grid.panic
        /\ grid.word_map = prev_grid.word_map
        /\ grid.cell_map = prev_grid.cell_map

----------------------------------------------------------------------------
(* Properties of unplace_word and fit_to_size *)

UnplaceWordReturned ==
    /\ last_op.op = "unplace_word"
    /\ last_op.err = "Ok"
    /\ HasWord(prev_grid, last_op.word_id)

\* the owners of a cell other than the word
OtherOwners(cell, word_id) ==
    (get_across_word_id(cell) \cup get_down_word_id(cell)) \ {word_id}

\* what became of the cell at l, a cell of before that held a letter.  The
\* fit_to_size that ends unplace_word shrinks the bounding box, so a cell
\* left without a letter may have gone from the cell map.
CellAfterUnplace(before, after, l, word_id) ==
    IF OtherOwners(before.cell_map[l], word_id) = {}
    THEN HasCell(after, l) => is_empty(after.cell_map[l])
    ELSE /\ HasCell(after, l)
         /\ contains_letter(after.cell_map[l])
         /\ to_char(after.cell_map[l]) = to_char(before.cell_map[l])
         /\ get_across_word_id(after.cell_map[l])
              = get_across_word_id(before.cell_map[l]) \ {word_id}
         /\ get_down_word_id(after.cell_map[l])
              = get_down_word_id(before.cell_map[l]) \ {word_id}

\* C15: when unplace_word(id) returns, no cell is owned by id, a cell that
\* only id owned is Empty (if the shrunk bounding box still holds it), a
\* cell another word owns keeps its letter and that owner, no letter has
\* appeared, id is unplaced but still in the word map with its text, and
\* every other word is as it was.
C15_UnplaceWord ==
    UnplaceWordReturned =>
        /\ \A l \in DOMAIN grid.cell_map :
                /\ last_op.word_id \notin OtherOwners(grid.cell_map[l], -1)
                /\ contains_letter(grid.cell_map[l]) =>
                        /\ HasCell(prev_grid, l)
                        /\ contains_letter(prev_grid.cell_map[l])
        /\ \A l \in DOMAIN prev_grid.cell_map :
                contains_letter(prev_grid.cell_map[l]) =>
                    CellAfterUnplace(prev_grid, grid, l, last_op.word_id)
        /\ DOMAIN grid.word_map = DOMAIN prev_grid.word_map
        /\ ~is_placed(grid.word_map[last_op.word_id])
        /\ grid.word_map[last_op.word_id].word_text
             = prev_grid.word_map[last_op.word_id].word_text
        /\ \A id \in DOMAIN grid.word_map \ {last_op.word_id} :
                grid.word_map[id] = prev_grid.word_map[id]

\* a word crossing another one was unplaced: the crossing cell keeps its
\* letter, the other cell of the word is Empty
C15_Witness ==
    /\ UnplaceWordReturned
    /\ is_placed(prev_grid.word_map[last_op.word_id])
    /\ \E l \in DOMAIN prev_grid.cell_map :
            /\ is_intersection(prev_grid.cell_map[l])
            /\ last_op.word_id \in get_across_word_id(prev_grid.cell_map[l])
    /\ \E l \in DOMAIN grid.cell_map :
            /\ is_empty(grid.cell_map[l])
            /\ contains_letter(prev_grid.cell_map[l])

BlackCells(g) == {l \in DOMAIN g.cell_map : is_black(g.cell_map[l])}

\* the operations of the model that end with fit_to_size and returned
FitToSizeReturned ==
    /\ last_op.op \in {"new_from_wordmap_single_placed", "unplace_word"}
    /\ ~grid.panic

\* C16: after fit_to_size returns, the call at the end of unplace_word
\* included, the Black cells are exactly the cells one step before the start
\* and one step after the end of the words that are placed.
C16_BoundaryCellsRederived ==
    FitToSizeReturned => BlackCells(grid) = get_expected_black_cells(grid)

\* the cells of a grid that hold a letter, with what they hold
LetterCells(g) ==
    {<<l, g.cell_map[l]>> : l \in {x \in DOMAIN g.cell_map :
                                        contains_letter(g.cell_map[x])}}

\* a grid fit_to_size can be called on without failing an assertion of
\* check_valid, and that holds a letter
Fittable(g) == ~g.panic /\ check_valid(g) /\ LetterCells(g) # {}

\* exactly one line without letters on each of the four sides
OneBufferLine(g) ==
    /\ Bottom(g) - Top(g) >= 2
    /\ Right(g) - Left(g) >= 2
    /\ count_filled_cells_row(g, Top(g)) = 0
    /\ count_filled_cells_row(g, Bottom(g)) = 0
    /\ count_filled_cells_col(g, Left(g)) = 0
    /\ count_filled_cells_col(g, Right(g)) = 0
    /\ count_filled_cells_row(g, Top(g) + 1) > 0
    /\ count_filled_cells_row(g, Bottom(g) - 1) > 0
    /\ count_filled_cells_col(g, Left(g) + 1) > 0
    /\ count_filled_cells_col(g, Right(g) - 1) > 0
    /\ DOMAIN g.cell_map = (Top(g) .. Bottom(g)) \X (Left(g) .. Right(g))

\* fit_to_size applied to g: f is the grid it leaves
FitToSizeFits(g, f) ==
    /\ ~f.panic
    /\ OneBufferLine(f)
    /\ LetterCells(f) = LetterCells(g)
    /\ fit_to_size(f) = f

\* C17: fit_to_size on a grid that holds a letter leaves exactly one line
\* without letters on each side (3 rows of Len + 2 cells for a single word
\* laid across), leaves the letter cells as they were, and a second call
\* changes neither the bounding box nor the cell map.
C17_FitToSize ==
    /\ Fittable(grid) => FitToSizeFits(grid, fit_to_size(grid))
    /\ (FitToSizeReturned /\ LetterCells(grid) # {}) =>
            OneBufferLine(grid) /\ fit_to_size(grid) = grid
    /\ last_op.op = "new_from_wordmap_single_placed" =>
            Cardinality(DOMAIN grid.cell_map) = 3 * (Len(WordList[1]) + 2)

\* fit_to_size has work to do on a grid of two words: a word was placed in
\* the buffer line, so that a line is missing
C17_Witness ==
    /\ Fittable(grid)
    /\ Cardinality(PlacedWordIds(grid)) >= 2
    /\ ~OneBufferLine(grid)
    /\ fit_to_size(grid) # grid

----------------------------------------------------------------------------
(* Properties of assess_compatability *)

AssessCalled == call.op = "assess_compatability"

\* the two rasters on one plane: the first raster has its corner at the
\* origin, the second one at the offset
FirstValue(l) ==
    IF <<l[1], l[2]>> \in DOMAIN call.m.matrix
    THEN call.m.matrix[<<l[1], l[2]>>] ELSE 0

SecondValue(l) ==
    IF <<l[1] - call.other_row_shift, l[2] - call.other_col_shift>>
            \in DOMAIN call.other.matrix
    THEN call.other.matrix[<<l[1] - call.other_row_shift,
                             l[2] - call.other_col_shift>>]
    ELSE 0

PlaneCells ==
    ((- MaxShift) .. (call.m.nrows + MaxShift + 1))
        \X ((- MaxShift) .. (call.m.ncols + MaxShift + 1))

SquareAt(l) == {l, <<l[1] + 1, l[2]>>, <<l[1], l[2] + 1>>,
                <<l[1] + 1, l[2] + 1>>}

SharedCellsAgree ==
    \A l \in PlaneCells :
        (FirstValue(l) # 0 /\ SecondValue(l) # 0)
            => FirstValue(l) = SecondValue(l)

\* C20: assess_compatability finds the pair compatible exactly when some
\* cell is non-zero in both shifted rasters, every cell that is non-zero in
\* both holds the same value in both, and the union has no 2x2 block of
\* non-zero cells.
C20_CompatibleIff ==
    AssessCalled =>
        (call.compatible <=>
            /\ \E l \in PlaneCells : FirstValue(l) # 0 /\ SecondValue(l) # 0
            /\ SharedCellsAgree
            /\ ~ \E l \in PlaneCells :
                    \A k \in SquareAt(l) :
                        FirstValue(k) # 0 \/ SecondValue(k) # 0)

\* C20, amended: black cells (value 1) neither make the rasters overlap nor
\* make a block.  The pair is compatible exactly when some cell holds a
\* letter in both shifted rasters, every cell that is non-zero in both
\* holds the same value in both, and the union has no 2x2 block of letter
\* cells.
C20_CompatibleIffLetters ==
    AssessCalled =>
        (call.compatible <=>
            /\ \E l \in PlaneCells :
                    FirstValue(l) > BlackValue /\ SecondValue(l) > BlackValue
            /\ SharedCellsAgree
            /\ ~ \E l \in PlaneCells :
                    \A k \in SquareAt(l) :
                        FirstValue(k) > BlackValue
                            \/ SecondValue(k) > BlackValue)

\* a pair found compatible although a black cell closes a 2x2 block
C20_Witness ==
    /\ AssessCalled
    /\ call.compatible
    /\ \E l \in PlaneCells :
            \A k \in SquareAt(l) : FirstValue(k) # 0 \/ SecondValue(k) # 0

----------------------------------------------------------------------------
(* Properties of merge_with_grid and try_merge_with_grid *)

MergeCalled == last_op.op = "merge_with_grid"

MergeReturned == MergeCalled /\ ~grid.panic

\* the placement of a word of the other grid, moved by the shift
ShiftedPlacement(p) ==
    [start_location |-> relative_location(p.start_location,
                                          last_op.row_shift, last_op.col_shift),
     end_location |-> relative_location(p.end_location,
                                        last_op.row_shift, last_op.col_shift),
     direction |-> p.direction]

\* the cells the words of the other grid take after the shift, each with
\* its letter and the direction of its word
ShiftedLetters ==
    UNION {{[location |-> relative_location_directed(
                            ShiftedPlacement(p).start_location, i - 1,
                            p.direction),
             letter |-> second_grid.word_map[id].word_text[i],
             direction |-> p.direction] :
                i \in 1 .. Len(second_grid.word_map[id].word_text),
                p \in get_location(second_grid.word_map[id])} :
           id \in PlacedWordIds(second_grid)}

\* a shifted letter falls on a cell of self that holds another letter, a
\* black cell, or a word of the same direction
MergeConflicts ==
    \E s \in ShiftedLetters :
        /\ HasCell(prev_grid, s.location)
        /\ \/ is_black(fill_black_cells(prev_grid).cell_map[s.location])
           \/ /\ contains_letter(prev_grid.cell_map[s.location])
              /\ \/ to_char(prev_grid.cell_map[s.location]) # s.letter
                 \/ cell_get_word_id(prev_grid.cell_map[s.location],
                                     s.direction) # {}

\* no shifted letter falls on a letter of self
MergeDisconnected ==
    \A s \in ShiftedLetters :
        HasCell(prev_grid, s.location)
            => ~contains_letter(prev_grid.cell_map[s.location])

\* C18: when merge_with_grid returns, every word placed in the other grid
\* is placed in self at its shifted start with the same direction, every
\* word placed in self before is where it was, and the grid passes
\* check_valid; a shifted placement that conflicts with self, or a union
\* that is disconnected, makes the call panic.
C18_MergeWithGrid ==
    /\ MergeReturned =>
        /\ \A id \in PlacedWordIds(second_grid) :
                get_location(grid.word_map[id])
                    = {ShiftedPlacement(p) :
                        p \in get_location(second_grid.word_map[id])}
        /\ \A id \in PlacedWordIds(prev_grid) :
                grid.word_map[id] = prev_grid.word_map[id]
        /\ \A s \in ShiftedLetters :
                /\ HasCell(grid, s.location)
                /\ to_char(grid.cell_map[s.location]) = s.letter
        /\ check_valid(grid)
    /\ (MergeCalled /\ (MergeConflicts \/ MergeDisconnected)) => grid.panic

\* a merge of two crossing words into a grid of one word has returned
C18_Witness ==
    /\ MergeReturned
    /\ Cardinality(PlacedWordIds(second_grid)) = 2
    /\ PlacedWordIds(prev_grid) # {}

TryMergeCalled == last_op.op = "try_merge_with_grid"

PlacedInBoth == PlacedWordIds(prev_grid) \cap PlacedWordIds(second_grid) # {}

\* the value of a cell of a grid on the raster, 0 outside the grid
ValueAt(g, l) == IF HasCell(g, l) THEN cell_to_i16(g.cell_map[l]) ELSE 0

\* the other grid moved by <<row_shift, col_shift>> on the plane of self
ShiftedValueAt(l, row_shift, col_shift) ==
    ValueAt(second_grid, <<l[1] - row_shift, l[2] - col_shift>>)

\* the shifts at which the two bounding boxes can meet, and the cells
\* they cover together
MeetingRowShifts ==
    (Top(prev_grid) - Bottom(second_grid) - 1)
        .. (Bottom(prev_grid) - Top(second_grid) + 1)

MeetingColShifts ==
    (Left(prev_grid) - Right(second_grid) - 1)
        .. (Right(prev_grid) - Left(second_grid) + 1)

MeetingCells ==
    ((Top(prev_grid) - (Bottom(second_grid) - Top(second_grid)) - 2)
        .. (Bottom(prev_grid) + (Bottom(second_grid) - Top(second_grid)) + 2))
    \X ((Left(prev_grid) - (Right(second_grid) - Left(second_grid)) - 2)
        .. (Right(prev_grid) + (Right(second_grid) - Left(second_grid)) + 2))

\* the two grids fit at a shift: a letter on a letter, no cell filled
\* differently by the two, no 2x2 block of letters
CompatibleShift(row_shift, col_shift) ==
    /\ \E l \in MeetingCells :
            /\ ValueAt(prev_grid, l) > BlackValue
            /\ ShiftedValueAt(l, row_shift, col_shift) > BlackValue
    /\ \A l \in MeetingCells :
            (ValueAt(prev_grid, l) # 0
                /\ ShiftedValueAt(l, row_shift, col_shift) # 0)
            => ValueAt(prev_grid, l) = ShiftedValueAt(l, row_shift, col_shift)
    /\ ~ \E l \in MeetingCells :
            \A k \in {l, <<l[1] + 1, l[2]>>, <<l[1], l[2] + 1>>,
                       <<l[1] + 1, l[2] + 1>>} :
                \/ ValueAt(prev_grid, k) > BlackValue
                \/ ShiftedValueAt(k, row_shift, col_shift) > BlackValue

NoCompatibleShift ==
    \A row_shift \in MeetingRowShifts, col_shift \in MeetingColShifts :
        ~CompatibleShift(row_shift, col_shift)

----------------------------------------------------------------------------
(* Properties of find_best_probably_compatible_configuration *)

FindBestCalled == call.op = "find_best_probably_compatible_configuration"

\* the shifts of the scan and what assess_compatability says of each
ScannedResults ==
    {assess_compatability(call.m, call.other, row_shift, col_shift) :
        row_shift \in (- call.other.nrows) .. call.m.nrows,
        col_shift \in (- call.other.ncols) .. call.m.ncols}

\* a is scanned before b: rows first, then columns
ShiftBefore(a, b) ==
    \/ a.row_shift < b.row_shift
    \/ a.row_shift = b.row_shift /\ a.col_shift < b.col_shift

\* the compatible results of most overlaps, the first scanned among equals
BestResult(results) ==
    LET compatible == {r \in results : r.compatible}
    IN {best \in compatible :
            \A r \in compatible :
                \/ r.num_overlaps < best.num_overlaps
                \/ r = best
                \/ r.num_overlaps = best.num_overlaps /\ ShiftBefore(best, r)}

\* C21: find_best_probably_compatible_configuration returns the compatible
\* shift of the greatest overlap count among the shifts from -other.nrows
\* to self.nrows and from -other.ncols to self.ncols, the first one in
\* row-major order among equals, and None when no shift of the range is
\* compatible.
C21_FindBestScansInOrder ==
    FindBestCalled =>
        call.configuration =
            {[shift |-> <<best.row_shift, best.col_shift>>,
              overlaps |-> best.num_overlaps] :
                best \in BestResult(ScannedResults)}

\* two compatible shifts have the greatest overlap count, and the first is
\* returned
C21_Witness ==
    /\ FindBestCalled
    /\ \E c \in call.configuration :
        \E r \in ScannedResults :
            /\ r.compatible
            /\ r.num_overlaps = c.overlaps
            /\ <<r.row_shift, r.col_shift>> # c.shift

----------------------------------------------------------------------------
(* Properties of place_random_word *)

PlaceRandomWordReturned ==
    last_op.op = "place_random_word" /\ ~grid.panic

UnplacedWordIds(g) == DOMAIN g.word_map \ PlacedWordIds(g)

\* the candidates on the grid before the call: an unplaced word, an index
\* in it, and an open slot that holds the letter at that index
Candidates ==
    {[word_id |-> word_id, index_in_word |-> index_in_word,
      location |-> slot[1], direction |-> slot[2]] :
        word_id \in UnplacedWordIds(prev_grid),
        index_in_word \in 0 .. 1,
        slot \in UNION {LetterLocations(prev_grid, c) :
                            c \in Letters(prev_grid)}}

FittingCandidates ==
    {c \in Candidates :
        /\ c.index_in_word < Len(prev_grid.word_map[c.word_id].word_text)
        /\ <<c.location, c.direction>> \in LetterLocations(prev_grid,
                prev_grid.word_map[c.word_id].word_text[c.index_in_word + 1])}

\* C22: place_random_word returns true exactly when one word that was
\* unplaced is now placed and every other word is placed as before; when
\* it returns false every candidate fails, no placement has changed and
\* the grid renders as before.
C22_PlaceRandomWord ==
    PlaceRandomWordReturned =>
        /\ last_op.success <=>
                \E word_id \in UnplacedWordIds(prev_grid) :
                    /\ is_placed(grid.word_map[word_id])
                    /\ \A other \in DOMAIN prev_grid.word_map \ {word_id} :
                            grid.word_map[other] = prev_grid.word_map[other]
        /\ DOMAIN grid.word_map = DOMAIN prev_grid.word_map
        /\ ~last_op.success =>
                /\ \A c \in FittingCandidates :
                        ~try_place_word_in_cell_connected(prev_grid,
                            c.location, c.word_id, c.index_in_word,
                            c.direction).success
                /\ grid.word_map = prev_grid.word_map
                /\ to_string(grid) = to_string(prev_grid)

\* place_random_word has returned false although candidates existed
C22_Witness ==
    /\ PlaceRandomWordReturned
    /\ ~last_op.success
    /\ FittingCandidates # {}

----------------------------------------------------------------------------
(* Properties of the counts and tests of the graph *)

\* the edges of the graph as unordered pairs of nodes; an edge from a node
\* to itself is the set of that one node
EdgePairs(g) ==
    {{p[1], p[2]} : p \in {q \in AllNodes(g) \X AllNodes(g) :
                              q[2] \in get_node(g, q[1]).connected_nodes}}

EdgesBetweenTwoNodes(g) == {e \in EdgePairs(g) : Cardinality(e) = 2}

\* every node can be reached from every other node along edges
Connected(g) == ConnectedWithin(g, AllNodes(g))

CountCyclesCalled == gres.op = "count_cycles"

\* C23: on a connected graph with N nodes and E edges, a repeated or a
\* reversed edge counted once, count_cycles returns E - N + 1; the formula
\* accepts both ways of counting an edge from a node to itself, as an edge
\* or as no edge.
C23_CycleFormula ==
    (CountCyclesCalled /\ Connected(graph)) =>
        /\ ~gres.panic
        /\ ~gres.wrapped
        /\ gres.value \in
              {Cardinality(EdgePairs(graph)) + 1 - count_nodes(graph),
               Cardinality(EdgesBetweenTwoNodes(graph)) + 1 - count_nodes(graph)}

\* a connected graph without an edge from a node to itself
CountCyclesOnSimpleGraph ==
    /\ CountCyclesCalled
    /\ Connected(graph)
    /\ LoopNodes(graph) = {}
    /\ count_nodes(graph) = 3
    /\ gres.value = 1

\* the connected components of the graph, as sets of nodes
Components(g) == {ReachWithin(g, AllNodes(g), {x}) : x \in AllNodes(g)}

\* the number of independent cycles: edges - nodes + components, an edge
\* from a node to itself counted as a cycle
IndependentCycles(g) ==
    Cardinality(EdgePairs(g)) + Cardinality(Components(g)) - count_nodes(g)

\* C24: on a graph that is not connected count_cycles returns a number,
\* without a panic and without an arithmetic underflow, and the number is
\* not larger than the number of independent cycles of the graph.
C24_DisconnectedUnderReports ==
    (CountCyclesCalled /\ ~Connected(graph)) =>
        /\ ~gres.panic
        /\ ~gres.wrapped
        /\ gres.value <= IndependentCycles(graph)

IsConnectedCalled == gres.op = "is_connected"

\* every registered node is reached from the node start along edges
AllReachedFrom(g, start) == ReachWithin(g, AllNodes(g), {start}) = AllNodes(g)

\* the nodes that were registered without an edge
IsolatedNodes(g) ==
    {n \in AllNodes(g) : get_node(g, n).connected_nodes = {}}

\* C25: is_connected returns true exactly when every registered node, the
\* nodes without an edge included, is reached from one start node along
\* edges; a graph with no nodes is reported connected.
C25_IsConnected ==
    IsConnectedCalled =>
        /\ gres.res <=> (AllNodes(graph) = {}
                         \/ \E start \in AllNodes(graph) :
                                AllReachedFrom(graph, start))
        /\ AllNodes(graph) = {} => gres.res

\* is_connected has returned false for a graph whose edges join all nodes
\* but one, which was registered on its own
C25_Witness ==
    /\ IsConnectedCalled
    /\ ~gres.res
    /\ Cardinality(IsolatedNodes(graph)) = 1
    /\ count_edges(graph) = 1
    /\ count_nodes(graph) = 3

ComponentsAfterDeletingNodeCalled ==
    gres.op = "components_after_deleting_node"

\* the list of nodes rises strictly
Ascending(nodes) ==
    \A i \in 1 .. Len(nodes) - 1 : nodes[i] < nodes[i + 1]

\* C26: components_after_deleting_node removes the node and every edge that
\* ends at it and leaves the other nodes and edges alone; the components it
\* returns are the connected components of the remaining graph, every
\* remaining node in exactly one of them, each component sorted ascending
\* and the components ordered by their smallest node; when no node remains
\* the list is empty.
C26_ComponentsAfterDeletingNode ==
    ComponentsAfterDeletingNodeCalled =>
        LET before == gres.before
            components == gres.components
        IN /\ gres.err = "Ok"
           /\ AllNodes(graph) = AllNodes(before) \ {gres.node_id}
           /\ \A n \in AllNodes(graph) :
                get_node(graph, n).connected_nodes =
                    get_node(before, n).connected_nodes \ {gres.node_id}
           /\ {SeqToSet(components[i]) : i \in 1 .. Len(components)} =
                    Components(graph)
           /\ \A n \in AllNodes(graph) :
                Cardinality({i \in 1 .. Len(components) :
                                \E k \in 1 .. Len(components[i]) :
                                    components[i][k] = n}) = 1
           /\ \A i \in 1 .. Len(components) :
                /\ components[i] # <<>>
                /\ Ascending(components[i])
           /\ \A i \in 1 .. Len(components), j \in 1 .. Len(components) :
                i < j => components[i][1] < components[j][1]
           /\ AllNodes(graph) = {} => components = <<>>

\* the middle node of a path of three nodes has been deleted, and the two
\* ends are returned as two components
C26_Witness ==
    /\ ComponentsAfterDeletingNodeCalled
    /\ HasNode(gres.before, gres.node_id)
    /\ count_nodes(gres.before) = 3
    /\ Connected(gres.before)
    /\ Len(gres.components) = 2

PartitionNodesCalled == gres.op = "partition_nodes"

\* an edge of the graph ends at a node that is not in the node map
DanglingEdges(g) ==
    {<<n, m>> \in AllNodes(g) \X NodeIds :
        m \in get_node(g, n).connected_nodes /\ ~HasNode(g, m)}

\* the traversal from the two nodes comes to an edge whose end is not in
\* the node map
DanglingEdgeReached(g, first_node, second_node) ==
    \E e \in DanglingEdges(g) :
        e[1] \in ReachWithin(g, AllNodes(g),
                             {first_node, second_node} \cap AllNodes(g))

\* C27: partition_nodes returns the error NodeNotFound when first_node or
\* second_node is not a node of the graph, and the error InvalidEdge when
\* the traversal comes to an edge whose end is not in the node map; an
\* error carries no partition, and the call never panics.  No graph built
\* by the operations of Graph has such an edge.
C27_PartitionNodesErrors ==
    PartitionNodesCalled =>
        /\ gres.res.err \in {"Ok", "NodeNotFound", "InvalidEdge"}
        /\ (~HasNode(graph, gres.first_node) \/ ~HasNode(graph, gres.second_node))
                => gres.res.err = "NodeNotFound"
        /\ (/\ HasNode(graph, gres.first_node)
            /\ HasNode(graph, gres.second_node)
            /\ DanglingEdgeReached(graph, gres.first_node, gres.second_node))
                => gres.res.err = "InvalidEdge"
        /\ gres.res.err # "Ok" =>
                /\ gres.res.first = <<>>
                /\ gres.res.second = <<>>
        /\ DanglingEdges(graph) = {}

\* partition_nodes was called with one node of the graph and one node that
\* was deleted from it
C27_Witness ==
    /\ PartitionNodesCalled
    /\ HasNode(graph, gres.first_node)
    /\ ~HasNode(graph, gres.second_node)
    /\ ops.remove = 1
    /\ count_nodes(graph) = 2
    /\ gres.res.err = "NodeNotFound"

----------------------------------------------------------------------------
(* Properties of random_singleton_grids *)

RandomSingletonGridsReturned ==
    /\ call.op = "random_singleton_grids"
    /\ call.pc = "returned"

\* the part of a seed line before its first "::"
AnswerPart(line) ==
    LET ends == {i \in 1 .. Len(line) - 1 : line[i] = ":" /\ line[i + 1] = ":"}
    IN IF ends = {} THEN line
       ELSE SubSeq(line, 1, (CHOOSE i \in ends : \A k \in ends : i <= k) - 1)

\* the answer of a seed line: its letters, in capitals
AnswerOf(line) == to_uppercase(SelectSeq(AnswerPart(line), InRangeAToSmallZ))

\* the line has an answer: at least one letter, and nothing but letters,
\* hyphens and spaces
LineParses(line) ==
    /\ AnswerOf(line) # <<>>
    /\ \A i \in 1 .. Len(AnswerPart(line)) :
            \/ AnswerPart(line)[i] \in {"-", " "}
            \/ InRangeAToSmallZ(AnswerPart(line)[i])

\* the ids of the lines that parse: their positions in the input, from 0
ParsedIds(words) == {i \in 0 .. Len(words) - 1 : LineParses(words[i + 1])}

\* grid has exactly the word word_id placed, in the direction it asks for
\* when it asks for one, and holds the answers of the lines under ids
SingletonOf(g, word_id, words, ids) ==
    /\ ~g.panic
    /\ DOMAIN g.word_map = ids
    /\ PlacedWordIds(g) = {word_id}
    /\ \A id \in ids : g.word_map[id].word_text = AnswerOf(words[id + 1])
    /\ \A placement \in g.word_map[word_id].placement :
            allowed_in_direction(g.word_map[word_id], placement.direction)

----------------------------------------------------------------------------
(* Properties of the builder *)

FromStringReturned == last_op.op = "from_string"

\* C29: the grid that the builder reads from the rendering of a valid grid
\* renders to the same text, character for character.
C29_RoundTrip ==
    FromStringReturned =>
        /\ ~second_grid.panic
        /\ to_string(second_grid) = to_string(grid)

----------------------------------------------------------------------------
(* Properties of add_unplaced_word *)

AddUnplacedWordReturned == last_op.op = "add_unplaced_word"

\* C30: add_unplaced_word returns the lowest non-negative integer that was
\* not a key of the word map, stores the new word under it without a
\* placement, and changes no cell and no other word.
C30_AddUnplacedWord ==
    AddUnplacedWordReturned =>
        /\ last_op.word_id \in Nat
        /\ last_op.word_id \notin DOMAIN prev_grid.word_map
        /\ \A id \in 0 .. last_op.word_id - 1 : id \in DOMAIN prev_grid.word_map
        /\ DOMAIN grid.word_map = DOMAIN prev_grid.word_map \cup {last_op.word_id}
        /\ grid.word_map[last_op.word_id].word_text = last_op.word_text
        /\ grid.word_map[last_op.word_id].required_direction =
                last_op.required_direction
        /\ ~is_placed(grid.word_map[last_op.word_id])
        /\ \A id \in DOMAIN prev_grid.word_map :
                grid.word_map[id] = prev_grid.word_map[id]
        /\ grid.cell_map = prev_grid.cell_map
        /\ grid.top_left_cell_index = prev_grid.top_left_cell_index
        /\ grid.bottom_right_cell_index = prev_grid.bottom_right_cell_index
        /\ ~grid.panic

\* the word was added under an id below the ids of other words: the word
\* map had a gap
C30_Witness ==
    /\ AddUnplacedWordReturned
    /\ \E id \in DOMAIN prev_grid.word_map : last_op.word_id < id
    /\ PlacedWordIds(prev_grid) # {}

(* C31: the adjusted scores of pick_best_varied *)

\* the similarity of a child left to the k-th child picked, as
\* <<intersection, union>>
SimilarityToPick(i, k) ==
    calculate_similarity(
        to_graph_adjacency_matrix(pick.unique_children[i].grid),
        to_graph_adjacency_matrix(pick.best_attempts[k].grid))

PickTurnTaken ==
    /\ pick.pc \in {"loop", "returned"}
    /\ pick.best_attempts # <<>>

\* the product of the unions of the similarities to the first k picks
RECURSIVE UnionProduct(_, _)
UnionProduct(i, k) ==
    IF k = 0 THEN 1 ELSE SimilarityToPick(i, k)[2] * UnionProduct(i, k - 1)

\* the sum of the similarities to the first k picks, over UnionProduct(i, k)
RECURSIVE SimilaritySum(_, _)
SimilaritySum(i, k) ==
    IF k = 0 THEN 0
    ELSE SimilaritySum(i, k - 1) * SimilarityToPick(i, k)[2]
         + SimilarityToPick(i, k)[1] * UnionProduct(i, k - 1)

\* raw_score - raw_score * (sum of the similarities to all picks), as isize
AccumulatedScore(i) ==
    Truncate(pick.unique_children[i].summary_score
                * (UnionProduct(i, Len(pick.best_attempts))
                   - SimilaritySum(i, Len(pick.best_attempts))),
             UnionProduct(i, Len(pick.best_attempts)))

\* the smallest of raw_score * (1 - similarity) over the first k picks and
\* the raw score itself
RECURSIVE LowestReduced(_, _)
LowestReduced(i, k) ==
    IF k = 0 THEN pick.unique_children[i].summary_score
    ELSE Min(LowestReduced(i, k - 1),
             AdjustedScore(pick.unique_children[i].summary_score,
                           SimilarityToPick(i, k)))

\* the child taken in the last turn had the highest adjusted score
LastPickWasHighest ==
    \A j \in 1 .. Len(pick.last.adjusted_scores) :
        pick.last.adjusted_scores[j]
            <= pick.last.adjusted_scores[pick.last.best_index]

\* C31 as stated: after every pick the adjusted score of every child left is
\* its raw score less raw_score * similarity for each child picked so far,
\* the reductions adding up, and the child picked had the highest adjusted
\* score.  A child whose similarity to a pick is undefined (0 / 0) is not
\* constrained.
C31_ReductionsAccumulate ==
    PickTurnTaken =>
        /\ LastPickWasHighest
        /\ \A i \in 1 .. Len(pick.unique_children) :
              UnionProduct(i, Len(pick.best_attempts)) # 0 =>
                  pick.adjusted_scores[i] = AccumulatedScore(i)

\* C31 amended: after every pick the adjusted score of every child left is
\* the smallest of its raw score and of raw_score * (1 - similarity) over the
\* children picked so far, an undefined similarity giving 0; the reductions
\* do not add up.  The child picked had the highest adjusted score.
C31_LowestReductionKept ==
    PickTurnTaken =>
        /\ LastPickWasHighest
        /\ \A i \in 1 .. Len(pick.unique_children) :
              pick.adjusted_scores[i]
                = LowestReduced(i, Len(pick.best_attempts))

\* two picks were made and a child is left that is similar to both
C31_Witness ==
    /\ PickTurnTaken
    /\ Len(pick.best_attempts) = 2
    /\ \E i \in 1 .. Len(pick.unique_children) :
          /\ SimilarityToPick(i, 1)[1] > 0
          /\ SimilarityToPick(i, 2)[1] > 0
          /\ pick.adjusted_scores[i] # AccumulatedScore(i)

(* C32: remove_random_leaves *)

RemoveRandomLeavesCalled == last_op.op = "remove_random_leaves"

\* the words the last operation unplaced
UnplacedByLastOp == PlacedWordIds(prev_grid) \ PlacedWordIds(grid)

\* the words that cross at most one other word in the grid
WordsWithAtMostOneNeighbour(g) ==
    {word_id \in PlacedWordIds(g) :
        Cardinality({other \in PlacedWordIds(g) \ {word_id} :
            \E i \in 1 .. Len(get_all_intersections(g)) :
                get_all_intersections(g)[i] \in
                    {<<word_id, other>>, <<other, word_id>>}}) <= 1}

\* C32: remove_random_leaves(n, seed) on a valid grid returns without a
\* panic (unplace_word asserts that the grid is connected after every
\* removal), unplaces at most n words, each of which crossed at most one
\* other word when the call started, leaves at least one word placed and
\* leaves the grid connected.
C32_RemoveRandomLeaves ==
    (RemoveRandomLeavesCalled /\ check_valid(prev_grid)
                              /\ PlacedWordIds(prev_grid) # {}) =>
        /\ ~grid.panic
        /\ Cardinality(UnplacedByLastOp) <= last_op.num_leaves
        /\ UnplacedByLastOp \subseteq WordsWithAtMostOneNeighbour(prev_grid)
        /\ PlacedWordIds(grid) \subseteq PlacedWordIds(prev_grid)
        /\ PlacedWordIds(grid) # {}
        /\ is_connected(to_graph(grid))

\* two leaves of a grid of three words were unplaced
C32_Witness ==
    /\ RemoveRandomLeavesCalled
    /\ check_valid(prev_grid)
    /\ ~grid.panic
    /\ Cardinality(PlacedWordIds(prev_grid)) = 3
    /\ Cardinality(UnplacedByLastOp) = 2

(* C33: fill_grid *)

FillGridRunning == call.op = "fill_grid"

\* every outcome of place_random_word on the grid is a failure that leaves
\* the grid as it is
NoSeedPlacesAWord(g) ==
    \A r \in place_random_word(g) : ~r.success /\ r.grid = g

\* C33, the part about states: while fill_grid runs it has made at most
\* (number of words unplaced at the call + 1) calls of place_random_word,
\* every successful call has placed exactly one more word, no call panics,
\* and in the grid it returns place_random_word fails for every seed.
C33_FillGridBounded ==
    FillGridRunning =>
        /\ call.pc # "panic"
        /\ call.moves <= Cardinality(UnplacedWordIds(call.start)) + 1
        /\ Cardinality(PlacedWordIds(grid))
            = Cardinality(PlacedWordIds(call.start)) + call.moves
              - (IF call.pc \in {"filled", "returned"} THEN 1 ELSE 0)
        /\ PlacedWordIds(call.start) \subseteq PlacedWordIds(grid)
        /\ call.pc = "returned" => NoSeedPlacesAWord(grid)

\* C33: fill_grid terminates for every grid, within the number of calls of
\* C33_FillGridBounded, and returns a grid on which place_random_word fails
\* for every seed.
C33_FillGridTerminates ==
    /\ [](C33_FillGridBounded)
    /\ (FillGridRunning ~> (FillGridRunning /\ call.pc = "returned"))

\* fill_grid has returned after placing a word, another word staying
\* unplaced although the grid holds a letter of it
C33_Witness ==
    /\ FillGridRunning
    /\ call.pc = "returned"
    /\ call.moves >= 2
    /\ \E word_id \in UnplacedWordIds(grid) :
          \E i \in 1 .. Len(grid.word_map[word_id].word_text) :
              grid.word_map[word_id].word_text[i] \in Letters(grid)

(* C34: fill_black_cells *)

FillBlackCellsCalled == last_op.op = "fill_black_cells"

\* the cells that are black although no placed word starts after them or
\* ends before them
StaleBlackCells(g) ==
    {l \in DOMAIN g.cell_map :
        is_black(g.cell_map[l]) /\ l \notin get_expected_black_cells(g)}

\* C34: whatever cells were black before the call, a call of
\* fill_black_cells that returns leaves a grid on which black_cells_valid()
\* holds: a cell is black exactly when it lies before the start or after
\* the end of a placed word.  The words are as they were, and a second call
\* in a row leaves the grid of the first call as it is.  (The call panics
\* when such a cell lies outside the cell map, which happens only after
\* place_word_in_cell has failed on a word that was placed already.)
C34_FillBlackCellsRecomputes ==
    (FillBlackCellsCalled /\ ~grid.panic) =>
        /\ black_cells_valid(grid)
        /\ \A l \in DOMAIN grid.cell_map :
              is_black(grid.cell_map[l])
                <=> l \in get_expected_black_cells(grid)
        /\ get_expected_black_cells(grid) \subseteq DOMAIN grid.cell_map
        /\ grid.word_map = prev_grid.word_map
        /\ last_op.repeat => grid = prev_grid

\* fill_black_cells was called on a grid with a stale black cell and a
\* missing one; and it was called twice in a row
C34_Witness ==
    /\ FillBlackCellsCalled
    /\ ~grid.panic
    /\ StaleBlackCells(prev_grid) # {}
    /\ \E l \in get_expected_black_cells(prev_grid) :
            ~is_black(prev_grid.cell_map[l])

C34_WitnessRepeat ==
    /\ FillBlackCellsCalled
    /\ last_op.repeat
    /\ get_expected_black_cells(grid) # {}

(* C35: the symmetry of the compatibility of two rasters *)

OppositeCalled == gres.op = "compatible_with_matrix"

\* C35: for all rasters A and B and every offset (dr, dc), A is compatible
\* with B at (dr, dc) exactly when B is compatible with A at (-dr, -dc).
C35_CompatibilitySymmetric ==
    OppositeCalled => (gres.compatible <=> call.compatible)

\* two rasters of different shapes are compatible at an offset that is
\* negative in one direction, and so are they in the opposite setup
C35_Witness ==
    /\ OppositeCalled
    /\ call.compatible
    /\ gres.compatible
    /\ call.other_row_shift < 0 \/ call.other_col_shift < 0
    /\ call.m.nrows # call.other.nrows

(* C36: the letter and the owners of a cell *)

CellOwners(cell) == get_across_word_id(cell) \cup get_down_word_id(cell)

CellOwnersCalled == call.op \in {"add_word", "remove_word", "update_word_id"}

\* C36: after every call of add_word, remove_word or update_word_id the
\* cell has at most one owner across and at most one owner down, and when
\* it had an owner before the call and has one after it, its letter is the
\* letter it had before the call.
C36_LetterKeptWhileOwned ==
    CellOwnersCalled =>
        /\ Cardinality(get_across_word_id(call.cell)) <= 1
        /\ Cardinality(get_down_word_id(call.cell)) <= 1
        /\ (CellOwners(call.before) # {} /\ CellOwners(call.cell) # {}) =>
                to_char(call.cell) = to_char(call.before)
        /\ contains_letter(call.cell) <=> CellOwners(call.cell) # {}

\* a cell owned across and down by two words has its across owner renamed
\* to the down owner and keeps its letter
C36_Witness ==
    /\ call.op = "update_word_id"
    /\ Cardinality(CellOwners(call.before)) = 2
    /\ Cardinality(CellOwners(call.cell)) = 1
    /\ to_char(call.cell) = to_char(call.before)

(* C37: the placed words and the cells of a grid *)

\* the cells a placed word should lie in: as many as it has letters, from
\* its start along its direction
WordCellLocation(p, i) ==
    relative_location_directed(p.start_location, i, p.direction)

\* the word with this id, placed at p, lies in its cells: the end is the
\* last of them, each is in the cell map, holds the letter of its index and
\* carries the id in the direction of the word
WordLiesInItsCells(g, word_id, p) ==
    /\ p.end_location
        = WordCellLocation(p, Len(g.word_map[word_id].word_text) - 1)
    /\ \A i \in 0 .. Len(g.word_map[word_id].word_text) - 1 :
          /\ HasCell(g, WordCellLocation(p, i))
          /\ contains_letter(g.cell_map[WordCellLocation(p, i)])
          /\ to_char(g.cell_map[WordCellLocation(p, i)])
                = g.word_map[word_id].word_text[i + 1]
          /\ cell_get_word_id(g.cell_map[WordCellLocation(p, i)],
                              p.direction) = {word_id}

\* a cell that carries an id in a direction is one of the cells of that
\* word, which is placed in that direction
CellBelongsToItsWords(g, location) ==
    \A direction \in Directions :
        \A word_id \in cell_get_word_id(g.cell_map[location], direction) :
            /\ HasWord(g, word_id)
            /\ \E p \in get_location(g.word_map[word_id]) :
                  /\ p.direction = direction
                  /\ \E i \in 0 .. Len(g.word_map[word_id].word_text) - 1 :
                        location = WordCellLocation(p, i)

WordsLaidOut(g) ==
    /\ \A word_id \in PlacedWordIds(g) :
          \A p \in get_location(g.word_map[word_id]) :
              WordLiesInItsCells(g, word_id, p)
    /\ \A location \in DOMAIN g.cell_map : CellBelongsToItsWords(g, location)

\* C37: in every grid the builder returns and in every grid reached
\* through the mutation operations, each placed word lies in exactly as
\* many consecutive cells as it has letters, from its start along its
\* direction and inside the cell map, each with the letter of its index and
\* the id of the word in that direction, and no cell carries the id of a
\* word that is not placed there.
C37_PlacedWordsLaidOut ==
    /\ (grid # NoGrid /\ ~grid.panic) => WordsLaidOut(grid)
    /\ (FromStringReturned /\ ~second_grid.panic) => WordsLaidOut(second_grid)

(* C38: unplacing the only placed word *)

UnplaceWordCalled == last_op.op = "unplace_word"

\* C38: unplace_word on the only placed word of a grid returns without a
\* panic and leaves a grid without letters.
C38_UnplaceOnlyWord ==
    (UnplaceWordCalled /\ PlacedWordIds(prev_grid) = {last_op.word_id}) =>
        /\ ~grid.panic
        /\ \A l \in DOMAIN grid.cell_map : ~contains_letter(grid.cell_map[l])

(* C39: partition_nodes and the distances to the two nodes *)

\* the nodes within k edges of a node
RECURSIVE WithinEdges(_, _, _)
WithinEdges(g, node_id, k) ==
    IF k = 0 THEN {node_id}
    ELSE WithinEdges(g, node_id, k - 1)
         \cup UNION {get_node(g, n).connected_nodes :
                        n \in WithinEdges(g, node_id, k - 1)}

\* the number of edges of a shortest path between two nodes of a connected
\* graph
EdgeDistance(g, from, to) ==
    CHOOSE k \in 0 .. Cardinality(AllNodes(g)) :
        /\ to \in WithinEdges(g, from, k)
        /\ \A j \in 0 .. k - 1 : to \notin WithinEdges(g, from, j)

PartitionOfConnectedGraph ==
    /\ PartitionNodesCalled
    /\ HasNode(graph, gres.first_node)
    /\ HasNode(graph, gres.second_node)
    /\ Connected(graph)

\* C39: on a connected graph partition_nodes(a, b) returns as its first set
\* the nodes that are no farther from a than from b, counted in edges, and
\* as its second set the other nodes (the node itself when a = b).
C39_PartitionByDistance ==
    PartitionOfConnectedGraph =>
        /\ gres.res.err = "Ok"
        /\ SeqToSet(gres.res.first)
            = {v \in AllNodes(graph) :
                EdgeDistance(graph, gres.first_node, v)
                    <= EdgeDistance(graph, gres.second_node, v)}
        /\ SeqToSet(gres.res.second)
            = {gres.second_node} \cup
              {v \in AllNodes(graph) :
                EdgeDistance(graph, gres.first_node, v)
                    > EdgeDistance(graph, gres.second_node, v)}

\* a node at the same distance from both went to the first set, and a node
\* nearer to the second node went to the second set
C39_Witness ==
    /\ PartitionOfConnectedGraph
    /\ \E v \in SeqToSet(gres.res.first) \ {gres.first_node} :
          EdgeDistance(graph, gres.first_node, v)
            = EdgeDistance(graph, gres.second_node, v)
    /\ \E v \in SeqToSet(gres.res.second) \ {gres.second_node} :
          EdgeDistance(graph, gres.first_node, v)
            > EdgeDistance(graph, gres.second_node, v)

----------------------------------------------------------------------------
(* Properties of the populations from round to round *)

\* the summary scores present in a population
SummaryScores(grid_attempts) ==
    {grid_attempts[i].summary_score : i \in DOMAIN grid_attempts}

\* no score of the population before is higher than every score of the
\* population after
BestNotDecreased(before, after) ==
    \A s \in SummaryScores(before) : \E t \in SummaryScores(after) : t >= s

\* a pass of the loop of generate() that ran to its end
RoundCompleted ==
    /\ run.pc = "loop"
    /\ run'.pc = "loop"
    /\ run'.calls = run.calls + 1

\* the populations of a round that ran to its end are at least as good as
\* the populations it started from
RoundKeepsBest ==
    RoundCompleted =>
        /\ BestNotDecreased(generator.current_generation_complete,
                            generator'.current_generation_complete)
        /\ BestNotDecreased(generator.current_generation_ancestors,
                            generator'.current_generation_ancestors)

\* the summary score of the first grid generate() returned
FirstOutputScore ==
    CrosswordGridAttemptNew(run.output[1], generator.settings).summary_score

FirstOutputIsBest ==
    (run.pc = "returned" /\ run.output # <<>>) =>
        \A s \in SummaryScores(generator.current_generation_complete) :
            FirstOutputScore >= s

\* C40: from one round of generate() to the next the highest summary score
\* of the complete population never decreases, nor does the highest summary
\* score of the ancestor population, and the first grid generate() returns
\* has the highest summary score of the final complete population.
\* pick_best_varied keeps, of the candidates with one rendering, the one
\* that comes first, and the new candidates come before the old population:
\* a partition half or a pruned child that renders as the best ancestor but
\* scores less takes its place.
C40_BestScoreKept == [][RoundKeepsBest]_vars /\ []FirstOutputIsBest

====
